---- MODULE Spec2Model ----
(***************************************************************************)
(* Commit Timesheet Helper (src/extension.js, src/webview/App.vue).        *)
(*                                                                         *)
(* The parts of the program are modelled each with its own specification   *)
(* over the shared variables:                                              *)
(*   SpecWalk       findGitRepos / walkForRepos  (repository discovery)    *)
(*   SpecWalkFair   the same, run to its end     (termination)             *)
(*   SpecFetch      fetchCommits / safeExec      (log extraction, parsing) *)
(*   SpecClassify   normalize                    (commit type tag)         *)
(*   SpecFilter     filtered, the stats          (type and search filters) *)
(*   SpecScope      filtered                     (scope clause of search)  *)
(*   SpecGroup      filtered / grouped           (since, sort, day groups) *)
(*   SpecRender     the computed refs            (evaluation, repeated)    *)
(*   SpecMessages   the message listener         (commits messages)        *)
(*   SpecHost       activate                     (open command, panels)    *)
(*   SpecPanelsFair the handlers of open panels  (refresh, answered)       *)
(* Strings are sequences of one-character strings, paths are sequences of  *)
(* path components. A part that is not running has pc "idle".              *)
(***************************************************************************)
EXTENDS Integers, Sequences, FiniteSets, TLC

VARIABLES
    \* ---- findGitRepos / walkForRepos
    roots,        \* argument of findGitRepos: sequence of root paths
    fs,           \* the directory tree, path -> listing, fixed once a path is known
    wpc,          \* position in findGitRepos: "roots" (for-loop), "walk", "done"
    rootIdx,      \* index of the root of the for-loop in findGitRepos
    queue,        \* work-list of walkForRepos
    repos,        \* the Set of findGitRepos, in insertion order
    listed,       \* history: every path given to readdir so far
    visits,       \* history: the paths given to readdir by the current walkForRepos, in order
    found,        \* value returned by findGitRepos (Array.from(repos))
    \* ---- fetchCommits
    repoPaths,    \* argument of fetchCommits: sequence of repository paths
    authorSetting,\* commitTimesheet.author
    fpc,          \* position in fetchCommits: "start", "author", "log", "parse", "done"
    repoIdx,      \* index of the repository of the for-loop
    author,       \* effective author of the current repository
    raw,          \* output of safeExec(git log ...) for the current repository
    gitLog,       \* history: repository index -> what the log query did
    identity,     \* history: repository index -> what the identity query did
    allCommits,   \* the accumulator of fetchCommits
    fetched,      \* value returned by fetchCommits
    \* ---- normalize
    message,      \* commit.message of the commit being normalized
    npc,          \* "raw" before normalize, "normalized" after
    type,         \* commit.type assigned by normalize
    \* ---- the webview (App.vue refs and its environment)
    commits,      \* commits.value: the normalized commit list
    search,       \* search.value
    typeFilter,   \* typeFilter.value
    sort,         \* sort.value: "desc" or "asc"
    since,        \* since.value: "" or a calendar date
    daysBack,     \* daysBack.value
    now,          \* Date.now() when the component was set up
    utcOffset,    \* the viewer's local time zone: local time minus UTC
    loading,      \* loading.value
    collapsedDays,\* collapsedDays.value: the day keys whose flag is true
    viewRepos,    \* repos.value
    handled,      \* history: how many messages the listener of the webview has handled,
                  \* how many of type commits, and the payload of the last of these
    lastEvent,    \* history: the last event of the webview, and the refs before it
    rendered,     \* the values of the computed refs at the last rendering
    memo,         \* history: view state -> the values first rendered for it, and
                  \* whether it was rendered again after another view state
    original,     \* history: the commit list the component was set up with
    \* ---- activate (the extension host)
    selectedRepos,\* the closure variable selectedRepos of activate
    workspaceState,\* context.workspaceState['commitTimesheet.repos']
    errors,       \* history: the error messages shown
    runs,         \* the runs of the open command, each with the place it is at
    panels,       \* the panels created, each with its webview and its two channels
    queries       \* history: the number of log queries fetchCommits has run

walkVars == <<roots, fs, wpc, rootIdx, queue, repos, listed, visits, found>>
fetchVars == <<repoPaths, authorSetting, fpc, repoIdx, author, raw, gitLog, identity,
              allCommits, fetched>>
normVars == <<message, npc, type>>
viewVars == <<commits, search, typeFilter, sort, since, daysBack, now, utcOffset>>
uiVars == <<loading, collapsedDays, viewRepos, handled, lastEvent>>
renderVars == <<rendered, memo, original>>
hostVars == <<selectedRepos, workspaceState, errors, runs, panels, queries>>
extraVars == <<uiVars, renderVars, hostVars>>
vars == <<walkVars, fetchVars, normVars, viewVars, extraVars>>

(***************************************************************************)
(* Generic helpers                                                         *)
(***************************************************************************)
Range(s) == {s[i] : i \in 1..Len(s)}

IsPrefix(p, q) == Len(p) <= Len(q) /\ SubSeq(q, 1, Len(p)) = p

NoDuplicates(s) == \A i, j \in 1..Len(s) : s[i] = s[j] => i = j

Perms(S) == {s \in [1..Cardinality(S) -> S] : \A x \in S : \E i \in 1..Cardinality(S) : s[i] = x}

(***************************************************************************)
(* Repository discovery: the directory tree                                *)
(***************************************************************************)
\* Bound of the directory trees explored: the number of directories of a tree.
MaxDirs == 3

WorkspaceRoot == <<"w">>
DirNames == {"a", "b"}
LinkName == "lnk"

\* The root lists findGitRepos is given: one root, the same root twice, a root
\* inside another in both orders, two disjoint roots in both orders, and an
\* empty string (<<>>) among the roots.
RootLists ==
    {<<WorkspaceRoot>>,
     <<WorkspaceRoot, WorkspaceRoot>>,
     <<WorkspaceRoot, WorkspaceRoot \o <<"a">>>>,
     <<WorkspaceRoot \o <<"a">>, WorkspaceRoot>>,
     <<WorkspaceRoot \o <<"a">>, WorkspaceRoot \o <<"b">>>>,
     <<WorkspaceRoot \o <<"b">>, WorkspaceRoot \o <<"a">>>>,
     <<<<>>, WorkspaceRoot>>}

\* Faulty variant of skipDirs: one name is missing from the set.
skipDirsWithoutCache == {".git", "node_modules", "dist", "build", "out", ".next", ".turbo"}

skipDirs == {".git", "node_modules", "dist", "build", "out", ".next", ".turbo", ".cache"}

Dirent(n, k) == [name |-> n, kind |-> k]

\* The marker entry of a directory: none, a directory, or a regular file
\* (a linked worktree or a submodule has a .git file).
MarkerEntries(g) == IF g = "none" THEN {} ELSE {Dirent(".git", g)}

\* Entries beside the marker and the plain subdirectories: one directory for
\* every skip-set name but the marker's, a symbolic link to the workspace root
\* (a cycle), and a regular file.
NoiseEntries(x) ==
    IF x THEN {Dirent(n, "dir") : n \in {"node_modules", "dist", "build", "out", ".next",
                                          ".turbo", ".cache"}}
              \cup {Dirent(LinkName, "link"), Dirent("README", "file")}
         ELSE {}

\* The listings of a directory that readdir can read: a marker or none, with or
\* without the other entries, every set of plain subdirectories.
ReadableListings ==
    {[readable |-> TRUE,
      entries |-> MarkerEntries(gx[1]) \cup NoiseEntries(gx[2])
                  \cup {Dirent(n, "dir") : n \in kids}] :
        gx \in {<<"none", FALSE>>, <<"none", TRUE>>, <<"dir", FALSE>>, <<"dir", TRUE>>,
                <<"file", TRUE>>},
        kids \in SUBSET DirNames}

\* A path whose readdir throws: it does not exist (ENOENT), or it is a
\* repository with a subdirectory that may not be read (EACCES).
Missing == [readable |-> FALSE, entries |-> {}]

UnreadableListings ==
    {Missing, [readable |-> FALSE, entries |-> {Dirent(".git", "dir"), Dirent("a", "dir")}]}

Listings == ReadableListings \cup UnreadableListings

\* The real path of p: a symbolic link of the tree points at the workspace root.
RECURSIVE RealPath(_)
RealPath(p) ==
    IF p = <<>> THEN <<>>
    ELSE IF p[Len(p)] = LinkName THEN WorkspaceRoot
    ELSE Append(RealPath(SubSeq(p, 1, Len(p) - 1)), p[Len(p)])

\* The directories known to exist in tree f (roots included).
TreeDirs(f, rootSet) ==
    (DOMAIN f) \cup (rootSet \ {<<>>})
    \cup {Append(pn[1], pn[2]) :
            pn \in {pn \in (DOMAIN f) \X DirNames : Dirent(pn[2], "dir") \in f[pn[1]].entries}}

\* Listing l at path p is consistent with what is already known of the tree:
\* a known readable child is a directory entry of l, and a path that its known
\* parent does not list as a directory does not exist.
Consistent(f, p, l) ==
    /\ \A n \in DirNames :
          (Append(p, n) \in DOMAIN f /\ f[Append(p, n)] # Missing)
              => Dirent(n, "dir") \in l.entries
    /\ (Len(p) > 1 /\ SubSeq(p, 1, Len(p) - 1) \in DOMAIN f
          /\ Dirent(p[Len(p)], "dir") \notin f[SubSeq(p, 1, Len(p) - 1)].entries)
              => l = Missing

\* The tree after path p is looked at: p keeps its listing once it has one.
Discover(f, rs, p) ==
    IF p \in DOMAIN f THEN {f}
    ELSE {f @@ (p :> l) : l \in {l \in Listings :
            /\ Consistent(f, p, l)
            /\ Cardinality(TreeDirs(f @@ (p :> l), Range(rs))) <= MaxDirs}}

(***************************************************************************)
(* Repository discovery: walkForRepos and findGitRepos                     *)
(***************************************************************************)
isSymbolicLink(entry) == entry.kind = "link"

isDirectory(entry) == entry.kind = "dir"

\* Faulty variant of ShouldEnqueue: the entry type is taken from the link's target
\* (stat instead of lstat) and links are not filtered out.
ShouldEnqueueFollowingLinks(entry) ==
    /\ entry.kind \in {"dir", "link"}
    /\ entry.name \notin skipDirs

\* The three `continue` tests of the second for-loop of walkForRepos.
ShouldEnqueue(entry) ==
    /\ ~isSymbolicLink(entry)
    /\ isDirectory(entry)
    /\ entry.name \notin skipDirs

\* The first for-loop of walkForRepos.
hasGit(entries) == \E entry \in entries : entry.name = ".git"

\* Faulty variant of SetAdd: an array push, which keeps duplicates.
ArrayPush(set, value) == Append(set, value)

\* Set.prototype.add on a Set kept in insertion order.
SetAdd(set, value) == IF value \in Range(set) THEN set ELSE Append(set, value)

\* Faulty variant of QueueAfterReaddirError: the catch block returns from walkForRepos.
QueueDroppedOnError(rest) == <<>>

\* The work-list after readdir threw: `continue`, the rest of the list is kept.
QueueAfterReaddirError(rest) == rest

\* Faulty variant of Pushed: the walk does not go below a repository root.
PushedUnlessRepo(isRepo, children) == IF isRepo THEN <<>> ELSE children

\* What the second for-loop pushes: it runs whether or not current was recorded.
Pushed(isRepo, children) == children

InitWalk ==
    /\ roots \in RootLists
    /\ fs = <<>>
    /\ wpc = "roots"
    /\ rootIdx = 1
    /\ queue = <<>>
    /\ repos = <<>>
    /\ listed = {}
    /\ visits = <<>>
    /\ found = <<>>
    \* fetchCommits and normalize are not running
    /\ repoPaths = <<>> /\ authorSetting = <<>> /\ fpc = "idle" /\ repoIdx = 0
    /\ author = <<>> /\ raw = <<>> /\ gitLog = <<>> /\ identity = <<>> /\ allCommits = <<>> /\ fetched = <<>>
    /\ message = <<>> /\ npc = "idle" /\ type = <<>>
    \* the webview is not open
    /\ commits = <<>> /\ search = <<>> /\ typeFilter = <<>> /\ sort = "desc" /\ since = <<>>
    /\ daysBack = 0 /\ now = 0 /\ utcOffset = 0
    \* no message, no rendering, no command
    /\ loading = FALSE /\ collapsedDays = {} /\ viewRepos = <<>> /\ handled = <<>>
    /\ lastEvent = [kind |-> "none"]
    /\ rendered = <<>> /\ memo = <<>> /\ original = <<>>
    /\ selectedRepos = <<>> /\ workspaceState = <<>> /\ errors = <<>> /\ runs = <<>>
    /\ panels = <<>> /\ queries = 0

\* findGitRepos: the for-loop calls walkForRepos(root, repos); queue = [startPath].
WalkBegin ==
    /\ wpc = "roots"
    /\ rootIdx <= Len(roots)
    /\ queue' = <<roots[rootIdx]>>
    /\ visits' = <<>>
    /\ wpc' = "walk"
    /\ UNCHANGED <<roots, fs, rootIdx, repos, listed, found>>

\* One iteration of the while-loop: queue.pop() gave an empty path.
WalkSkipEmpty ==
    /\ wpc = "walk"
    /\ queue # <<>>
    /\ queue[Len(queue)] = <<>>
    /\ queue' = SubSeq(queue, 1, Len(queue) - 1)
    /\ UNCHANGED <<roots, fs, wpc, rootIdx, repos, listed, visits, found>>

\* One iteration of the while-loop: readdir(current) threw.
WalkUnreadable ==
    /\ wpc = "walk"
    /\ queue # <<>>
    /\ LET current == queue[Len(queue)]
           rest == SubSeq(queue, 1, Len(queue) - 1)
       IN /\ current # <<>>
          /\ \E f \in Discover(fs, roots, RealPath(current)) :
                /\ ~f[RealPath(current)].readable
                /\ fs' = f
          /\ listed' = listed \cup {current}
          /\ visits' = Append(visits, current)
          /\ queue' = QueueAfterReaddirError(rest)
    /\ UNCHANGED <<roots, wpc, rootIdx, repos, found>>

\* One iteration of the while-loop: readdir(current) gave entries, in some order.
WalkListed ==
    /\ wpc = "walk"
    /\ queue # <<>>
    /\ LET current == queue[Len(queue)]
           rest == SubSeq(queue, 1, Len(queue) - 1)
       IN /\ current # <<>>
          /\ \E f \in Discover(fs, roots, RealPath(current)) :
                /\ f[RealPath(current)].readable
                /\ fs' = f
                /\ LET entries == f[RealPath(current)].entries
                   IN /\ repos' = IF hasGit(entries) THEN SetAdd(repos, current) ELSE repos
                      /\ \E order \in Perms({entry \in entries : ShouldEnqueue(entry)}) :
                            queue' = rest \o Pushed(hasGit(entries),
                                        [i \in 1..Len(order) |-> Append(current, order[i].name)])
          /\ listed' = listed \cup {current}
          /\ visits' = Append(visits, current)
    /\ UNCHANGED <<roots, wpc, rootIdx, found>>

\* The while-loop ends: walkForRepos returns to the for-loop of findGitRepos.
WalkEnd ==
    /\ wpc = "walk"
    /\ queue = <<>>
    /\ rootIdx' = rootIdx + 1
    /\ wpc' = "roots"
    /\ UNCHANGED <<roots, fs, queue, repos, listed, visits, found>>

\* findGitRepos returns Array.from(repos).
FindReturn ==
    /\ wpc = "roots"
    /\ rootIdx > Len(roots)
    /\ found' = repos
    /\ wpc' = "done"
    /\ UNCHANGED <<roots, fs, rootIdx, queue, repos, listed, visits>>

NextWalk ==
    \/ WalkBegin /\ UNCHANGED <<fetchVars, normVars, viewVars, extraVars>>
    \/ WalkSkipEmpty /\ UNCHANGED <<fetchVars, normVars, viewVars, extraVars>>
    \/ WalkUnreadable /\ UNCHANGED <<fetchVars, normVars, viewVars, extraVars>>
    \/ WalkListed /\ UNCHANGED <<fetchVars, normVars, viewVars, extraVars>>
    \/ WalkEnd /\ UNCHANGED <<fetchVars, normVars, viewVars, extraVars>>
    \/ FindReturn /\ UNCHANGED <<fetchVars, normVars, viewVars, extraVars>>

SpecWalk == InitWalk /\ [][NextWalk]_vars

(***************************************************************************)
(* Repository discovery: what a walk of a tree has to give                 *)
(***************************************************************************)
\* Entry n of directory p is a real directory outside the skip set, and p can be read.
Walkable(f, p, n) ==
    /\ p \in DOMAIN f
    /\ f[p].readable
    /\ Dirent(n, "dir") \in f[p].entries
    /\ n \notin skipDirs

\* p is r or lies below r, through walkable entries only.
WalkableFrom(f, r, p) ==
    /\ IsPrefix(r, p)
    /\ \A k \in (Len(r) + 1)..Len(p) : Walkable(f, SubSeq(p, 1, k - 1), p[k])

ReachableDirs(f, rootSet) ==
    {p \in TreeDirs(f, rootSet) : \E r \in rootSet \ {<<>>} : WalkableFrom(f, r, p)}

\* p is a directory that can be read and has an entry named .git.
HasMarkerEntry(f, p) == p \in DOMAIN f /\ f[p].readable /\ hasGit(f[p].entries)

\* p is a repository root: its top level holds the marker directory.
IsRepoRoot(f, p) == p \in DOMAIN f /\ f[p].readable /\ Dirent(".git", "dir") \in f[p].entries

\* The result of a walk as a function of the tree and of the set of roots only.
ExpectedRepos(f, rootSet) == {p \in ReachableDirs(f, rootSet) : HasMarkerEntry(f, p)}

\* Every path the walk has touched so far.
Touched == Range(queue) \cup listed \cup Range(repos) \cup Range(found)

AllReachableListed == \A p \in ReachableDirs(fs, Range(roots)) : p \in listed

\* C6: no entry named .git, node_modules, dist, build, out, .next, .turbo or
\* .cache of a listed directory is ever pushed on the work-list or listed, at
\* any depth, and no returned path lies inside such a directory below a root.
C6_SkipDirsPruned ==
    \A p \in Touched \ {<<>>} :
        \E r \in Range(roots) \ {<<>>} :
            /\ IsPrefix(r, p)
            /\ \A k \in (Len(r) + 1)..Len(p) :
                  p[k] \notin {".git", "node_modules", "dist", "build", "out", ".next",
                               ".turbo", ".cache"}

\* C6 witness: the walk is over and it listed a directory below the root that
\* holds a node_modules and a .cache directory; a repository was returned.
C6_Witness ==
    /\ wpc = "done"
    /\ found # <<>>
    /\ \E p \in listed :
          /\ Len(p) >= 2
          /\ fs[p].readable
          /\ {Dirent("node_modules", "dir"), Dirent(".cache", "dir")} \subseteq fs[p].entries

\* C7: no path on the work-list, listed or returned goes through an entry that
\* is a symbolic link in the listing of its parent.
C7_LinksNeverFollowed ==
    \A p \in Touched :
        \A k \in 2..Len(p) :
            RealPath(SubSeq(p, 1, k - 1)) \in DOMAIN fs
                => Dirent(p[k], "link") \notin fs[RealPath(SubSeq(p, 1, k - 1))].entries

\* C7 witness: the walk is over and it listed a directory holding a symbolic
\* link to the workspace root, an ancestor of that directory (a cycle).
C7_Witness ==
    /\ wpc = "done"
    /\ \E p \in listed :
          /\ Len(p) >= 2
          /\ IsPrefix(WorkspaceRoot, p)
          /\ fs[p].readable
          /\ Dirent(LinkName, "link") \in fs[p].entries

\* C8: a directory whose listing fails yields no repository and no children;
\* the walk still ends, every directory that can be reached without going
\* through an unreadable one is listed, and every repository root among them
\* is returned.
C8_UnreadableSkipped ==
    /\ \A p \in listed :
          ~fs[RealPath(p)].readable =>
              /\ p \notin Range(repos)
              /\ \A d \in Touched :
                    (IsPrefix(p, d) /\ d # p) =>
                        \E r \in Range(roots) : IsPrefix(p, r) /\ r # p /\ IsPrefix(r, d)
    /\ wpc # "done" => ENABLED (WalkBegin \/ WalkSkipEmpty \/ WalkUnreadable
                                \/ WalkListed \/ WalkEnd \/ FindReturn)
    /\ wpc = "done" =>
          /\ AllReachableListed
          /\ \A p \in ReachableDirs(fs, Range(roots)) : IsRepoRoot(fs, p) => p \in Range(found)

\* C8 witness: the walk is over, it met an unreadable directory that holds a
\* marker, and it returned a repository that is not on that directory's path.
C8_Witness ==
    /\ wpc = "done"
    /\ \E p \in listed :
          /\ ~fs[p].readable
          /\ hasGit(fs[p].entries)
          /\ \E q \in Range(found) : ~IsPrefix(q, p) /\ ~IsPrefix(p, q)

\* C9: below a recorded repository root the walk goes on: its walkable
\* subdirectories are listed, and a repository root reached from it through
\* walkable entries is returned together with it.
C9_NestedReposReported ==
    wpc = "done" =>
        \A p \in listed :
            IsRepoRoot(fs, p) =>
                /\ \A n \in DirNames : Walkable(fs, p, n) => Append(p, n) \in listed
                /\ \A q \in listed :
                      (q # p /\ WalkableFrom(fs, p, q) /\ IsRepoRoot(fs, q))
                          => {p, q} \subseteq Range(found)

\* C9 witness: the walk from one root returned a repository root and another
\* one inside it.
C9_Witness ==
    /\ wpc = "done"
    /\ Len(roots) = 1
    /\ \E p, q \in Range(found) :
          /\ p # q
          /\ IsPrefix(p, q)
          /\ IsRepoRoot(fs, p)
          /\ IsRepoRoot(fs, q)

\* C10: the returned paths are, as a set, a function of the tree and of the set
\* of roots, whatever the order of the roots, of the entries of a listing and of
\* the work-list, and no path is returned twice.
C10_OrderIndependent ==
    wpc = "done" =>
        /\ AllReachableListed
        /\ Range(found) = ExpectedRepos(fs, Range(roots))
        /\ NoDuplicates(found)

\* C10 witness: two roots, the second inside or equal to the first, and a
\* repository both walks met, returned once; and a directory whose two
\* subdirectories were pushed in either order.
C10_Witness ==
    /\ wpc = "done"
    /\ Len(roots) = 2
    /\ IsPrefix(roots[1], roots[2])
    /\ roots[2] \in Range(found)
    /\ Len(found) = 2

\* C11: every path recorded or returned by findGitRepos is a directory whose
\* listing holds the marker .git as a directory; a directory whose only entry
\* named .git is a regular file (or a link) is not recorded.
C11_MarkerIsDirectory ==
    \A p \in Range(repos) \cup Range(found) :
        /\ p \in DOMAIN fs
        /\ fs[p].readable
        /\ Dirent(".git", "dir") \in fs[p].entries

(***************************************************************************)
(* Commit extraction: JavaScript values                                    *)
(***************************************************************************)
\* The two delimiters of the log format, 0x1f and 0x1e, as characters.
US == "\\x1f"
RS == "\\x1e"

\* The value undefined (no string is equal to it).
Undefined == <<"undefined">>

Whitespace == {" ", "\n"}

\* ToBoolean on a string or undefined.
Truthy(v) == v # Undefined /\ v # <<>>

\* a || b and a && b.
Or(a, b) == IF Truthy(a) THEN a ELSE b

And(a, b) == IF Truthy(a) THEN b ELSE a

\* String.prototype.trim.
RECURSIVE trim(_)
trim(s) ==
    IF s = <<>> THEN s
    ELSE IF s[1] \in Whitespace THEN trim(Tail(s))
    ELSE IF s[Len(s)] \in Whitespace THEN trim(SubSeq(s, 1, Len(s) - 1))
    ELSE s

\* String.prototype.split on a one-character separator.
RECURSIVE split(_, _)
split(s, sep) ==
    IF \A i \in 1..Len(s) : s[i] # sep THEN <<s>>
    ELSE LET i == CHOOSE i \in 1..Len(s) : s[i] = sep /\ \A j \in 1..(i - 1) : s[j] # sep
         IN <<SubSeq(s, 1, i - 1)>> \o split(SubSeq(s, i + 1, Len(s)), sep)

\* Array destructuring: the element at position i, undefined past the end.
Element(parts, i) == IF i <= Len(parts) THEN parts[i] ELSE Undefined

\* path.basename and workspaceRelativePath, with one workspace folder.
workspaceFolders == <<WorkspaceRoot>>

basename(path) == IF path = <<>> THEN <<>> ELSE <<path[Len(path)]>>

RECURSIVE RelativeIn(_, _)
RelativeIn(folders, targetPath) ==
    IF folders = <<>> THEN <<>>
    ELSE IF IsPrefix(Head(folders), targetPath)
         THEN Or(SubSeq(targetPath, Len(Head(folders)) + 1, Len(targetPath)),
                 basename(Head(folders)))
         ELSE RelativeIn(Tail(folders), targetPath)

workspaceRelativePath(targetPath) == RelativeIn(workspaceFolders, targetPath)

(***************************************************************************)
(* Commit extraction: the log query and the identity query                 *)
(***************************************************************************)
\* Bound of the log outputs explored: the records of one fetchCommits call.
MaxRecords == 2

\* The repository lists fetchCommits is given (findGitRepos returns no
\* duplicates, and the selection is taken from its result).
RepoLists ==
    {<<>>,
     <<WorkspaceRoot>>,
     <<WorkspaceRoot \o <<"a">>, WorkspaceRoot \o <<"b">>>>,
     <<<<"x">>, WorkspaceRoot \o <<"a">>>>}

\* commitTimesheet.author: not set, blank, or a name with a space after it.
AuthorSettings == {Undefined, <<" ">>, <<"s", " ">>}

\* What `git config user.name` prints; it fails when no name is configured.
ConfigOutputs == {<<"u", "\n">>, <<"\n">>}

\* The fields a log record is made of. A subject may hold | and :, and may be
\* empty; an author name may be empty.
Hashes == {<<"a">>, <<"b">>}
Dates == {<<"1">>}
Subjects == {<<>>, <<"x", "|", ":">>}
AuthorNames == {<<>>, <<"n">>}

\* A log record as its sequence of fields: the four fields of the format, or
\* a record cut short after one, two or three fields.
LogRecords ==
    {<<h, d, m, a>> : h \in Hashes, d \in Dates, m \in Subjects, a \in AuthorNames}
    \cup {<<h, d, m>> : h \in Hashes, d \in Dates, m \in Subjects}
    \cup {<<h, d>> : h \in Hashes, d \in Dates}
    \cup {<<h>> : h \in Hashes}

RECURSIVE JoinFields(_)
JoinFields(fields) ==
    IF Len(fields) = 1 THEN fields[1]
    ELSE fields[1] \o <<US>> \o JoinFields(Tail(fields))

\* One record printed with the format %h%x1f%cI%x1f%s%x1f%an%x1e.
RecordText(fields) == JoinFields(fields) \o <<RS>>

\* The records printed one after the other with gap between two of them:
\* --pretty=format: puts a newline there, a synthetic output puts nothing.
RECURSIVE LogText(_, _)
LogText(records, gap) ==
    IF records = <<>> THEN <<>>
    ELSE IF Len(records) = 1 THEN RecordText(records[1])
    ELSE RecordText(records[1]) \o gap \o LogText(Tail(records), gap)

RECURSIVE RecordCount(_)
RecordCount(log) == IF log = <<>> THEN 0 ELSE Len(Head(log).records) + RecordCount(Tail(log))

\* What the log query of one repository may do: fail, print only a newline,
\* or print some records.
LogOutcomes(log) ==
    {[failed |-> TRUE, records |-> <<>>, gap |-> <<>>, text |-> <<>>],
     [failed |-> FALSE, records |-> <<>>, gap |-> <<>>, text |-> <<"\n">>]}
    \cup {[failed |-> FALSE, records |-> rg[1], gap |-> rg[2], text |-> LogText(rg[1], rg[2])] :
            rg \in {rg \in (UNION {[1..n -> LogRecords] :
                                      n \in 0..(MaxRecords - RecordCount(log))})
                             \X {<<>>, <<"\n">>} :
                        Len(rg[1]) > 1 \/ rg[2] = <<>>}}

\* safeExec: the output of the command, the empty string when it throws.
safeExec(outcome) == IF outcome.failed THEN <<>> ELSE outcome.text

(***************************************************************************)
(* Commit extraction: fetchCommits                                          *)
(***************************************************************************)
\* Faulty variant of ParseLine: the date and the subject are taken in the wrong order.
ParseLineSwapped(line, fallbackAuthor, repoPath) ==
    LET parts == split(line, US)
    IN [author |-> Or(Element(parts, 4), fallbackAuthor),
        date |-> Element(parts, 3),
        hash |-> Element(parts, 1),
        message |-> Element(parts, 2),
        repoPath |-> repoPath,
        repoLabel |-> Or(workspaceRelativePath(repoPath), basename(repoPath))]

\* The callback of forEach: one fragment of the output becomes one commit.
ParseLine(line, fallbackAuthor, repoPath) ==
    LET parts == split(line, US)
    IN [author |-> Or(Element(parts, 4), fallbackAuthor),
        date |-> Element(parts, 2),
        hash |-> Element(parts, 1),
        message |-> Element(parts, 3),
        repoPath |-> repoPath,
        repoLabel |-> Or(workspaceRelativePath(repoPath), basename(repoPath))]

\* raw.split('\x1e').filter(Boolean).forEach(...)
ParseRaw(text, fallbackAuthor, repoPath) ==
    LET lines == SelectSeq(split(text, RS), Truthy)
    IN [i \in 1..Len(lines) |-> ParseLine(lines[i], fallbackAuthor, repoPath)]

\* Faulty variant of AfterBlank: the loop is left instead of continued.
AfterBlankBreak(i, n) == n + 1

\* The repository the for-loop takes after `continue`.
AfterBlank(i, n) == i + 1

InitFetch ==
    /\ repoPaths \in RepoLists
    /\ authorSetting \in AuthorSettings
    /\ fpc = "start"
    /\ repoIdx = 0
    /\ author = <<>>
    /\ raw = <<>>
    /\ gitLog = <<>>
    /\ identity = <<>>
    /\ allCommits = <<>>
    /\ fetched = <<>>
    \* findGitRepos and normalize are not running
    /\ roots = <<>> /\ fs = <<>> /\ wpc = "idle" /\ rootIdx = 0
    /\ queue = <<>> /\ repos = <<>> /\ listed = {} /\ visits = <<>> /\ found = <<>>
    /\ message = <<>> /\ npc = "idle" /\ type = <<>>
    \* the webview is not open
    /\ commits = <<>> /\ search = <<>> /\ typeFilter = <<>> /\ sort = "desc" /\ since = <<>>
    /\ daysBack = 0 /\ now = 0 /\ utcOffset = 0
    \* no message, no rendering, no command
    /\ loading = FALSE /\ collapsedDays = {} /\ viewRepos = <<>> /\ handled = <<>>
    /\ lastEvent = [kind |-> "none"]
    /\ rendered = <<>> /\ memo = <<>> /\ original = <<>>
    /\ selectedRepos = <<>> /\ workspaceState = <<>> /\ errors = <<>> /\ runs = <<>>
    /\ panels = <<>> /\ queries = 0

\* fetchCommits with no repository: return [].
FetchNothing ==
    /\ fpc = "start"
    /\ repoPaths = <<>>
    /\ fetched' = <<>>
    /\ fpc' = "done"
    /\ UNCHANGED <<repoPaths, authorSetting, repoIdx, author, raw, gitLog, identity, allCommits>>

\* fetchCommits up to the for-loop.
FetchStart ==
    /\ fpc = "start"
    /\ repoPaths # <<>>
    /\ allCommits' = <<>>
    /\ repoIdx' = 1
    /\ fpc' = "author"
    /\ UNCHANGED <<repoPaths, authorSetting, author, raw, gitLog, identity, fetched>>

\* Faulty variant of Override: the setting is used as it is, blank or not.
OverrideUntrimmed(setting) == setting

\* The left operand of the author expression: authorSetting && authorSetting.trim().
Override(setting) == And(setting, trim(setting))

\* The outcomes of the identity query (git config user.name): it fails, or it
\* prints one of ConfigOutputs.
ConfigOutcomes ==
    {[failed |-> TRUE, text |-> <<>>]} \cup {[failed |-> FALSE, text |-> t] : t \in ConfigOutputs}

\* The effective author: the override when it is not blank (the identity
\* query is then not run), else the trimmed output of the identity query.
FetchAuthor ==
    /\ fpc = "author"
    /\ repoIdx <= Len(repoPaths)
    /\ LET override == Override(authorSetting)
       IN IF Truthy(override)
          THEN /\ author' = override
               /\ identity' = Append(identity, [run |-> FALSE, failed |-> FALSE, text |-> <<>>])
          ELSE \E outcome \in ConfigOutcomes :
                  /\ author' = trim(safeExec(outcome))
                  /\ identity' = Append(identity, [run |-> TRUE, failed |-> outcome.failed,
                                                   text |-> outcome.text])
    /\ fpc' = "log"
    /\ UNCHANGED <<repoPaths, authorSetting, repoIdx, raw, gitLog, allCommits, fetched>>

\* The log query of the current repository, through safeExec.
FetchLog ==
    /\ fpc = "log"
    /\ \E outcome \in LogOutcomes(gitLog) :
          /\ raw' = safeExec(outcome)
          /\ gitLog' = Append(gitLog,
                [repoPath |-> repoPaths[repoIdx],
                 authorFilter |-> IF Truthy(author) THEN author ELSE Undefined,
                 author |-> author,
                 failed |-> outcome.failed,
                 records |-> outcome.records,
                 gap |-> outcome.gap])
    /\ fpc' = "parse"
    /\ UNCHANGED <<repoPaths, authorSetting, repoIdx, author, identity, allCommits, fetched>>

\* if (!raw.trim()) continue;
FetchSkip ==
    /\ fpc = "parse"
    /\ ~Truthy(trim(raw))
    /\ repoIdx' = AfterBlank(repoIdx, Len(repoPaths))
    /\ fpc' = "author"
    /\ UNCHANGED <<repoPaths, authorSetting, author, raw, gitLog, identity, allCommits, fetched>>

\* The output is split and every fragment pushed on allCommits.
FetchParse ==
    /\ fpc = "parse"
    /\ Truthy(trim(raw))
    /\ allCommits' = allCommits \o ParseRaw(raw, author, repoPaths[repoIdx])
    /\ repoIdx' = repoIdx + 1
    /\ fpc' = "author"
    /\ UNCHANGED <<repoPaths, authorSetting, author, raw, gitLog, identity, fetched>>

\* return allCommits;
FetchReturn ==
    /\ fpc = "author"
    /\ repoIdx > Len(repoPaths)
    /\ fetched' = allCommits
    /\ fpc' = "done"
    /\ UNCHANGED <<repoPaths, authorSetting, repoIdx, author, raw, gitLog, identity, allCommits>>

NextFetch ==
    \/ FetchNothing /\ UNCHANGED <<walkVars, normVars, viewVars, extraVars>>
    \/ FetchStart /\ UNCHANGED <<walkVars, normVars, viewVars, extraVars>>
    \/ FetchAuthor /\ UNCHANGED <<walkVars, normVars, viewVars, extraVars>>
    \/ FetchLog /\ UNCHANGED <<walkVars, normVars, viewVars, extraVars>>
    \/ FetchSkip /\ UNCHANGED <<walkVars, normVars, viewVars, extraVars>>
    \/ FetchParse /\ UNCHANGED <<walkVars, normVars, viewVars, extraVars>>
    \/ FetchReturn /\ UNCHANGED <<walkVars, normVars, viewVars, extraVars>>

SpecFetch == InitFetch /\ [][NextFetch]_vars

(***************************************************************************)
(* Commit extraction: properties                                           *)
(***************************************************************************)
\* The returned commits of the i-th repository, in the order returned.
CommitsOf(i) == SelectSeq(fetched, LAMBDA c : c.repoPath = repoPaths[i])

\* The records of a log output that have the four fields of the format.
FourFields(records) == SelectSeq(records, LAMBDA r : Len(r) = 4)

\* C1: whatever the log query of each repository does, fetchCommits queries
\* every repository and returns; a repository whose query failed or printed
\* nothing gives no commit, and every record printed for a repository is
\* returned as one commit, in order, under the hash printed for it (after the
\* newline that --pretty=format: prints between two records).
C1_FailuresIsolated ==
    fpc = "done" =>
        /\ Len(gitLog) = Len(repoPaths)
        /\ \A i \in 1..Len(repoPaths) :
              LET mine == CommitsOf(i)
                  log == gitLog[i]
              IN /\ (log.failed \/ log.records = <<>>) => mine = <<>>
                 /\ Len(mine) = Len(log.records)
                 /\ \A k \in 1..Len(log.records) :
                       mine[k].hash = (IF k > 1 THEN log.gap ELSE <<>>) \o log.records[k][1]

\* C1 witness: two repositories, the query of the first failed, the second
\* printed two records and both came back.
C1_Witness ==
    /\ fpc = "done"
    /\ Len(repoPaths) = 2
    /\ gitLog[1].failed
    /\ Len(gitLog[2].records) = 2
    /\ Len(fetched) = 2

\* C2: a record with fewer than four fields gives no commit, and the records
\* with four fields before and after it give theirs.
C2_MalformedDropped ==
    fpc = "done" =>
        \A i \in 1..Len(repoPaths) :
            LET mine == CommitsOf(i)
                good == FourFields(gitLog[i].records)
            IN /\ Len(mine) = Len(good)
               /\ \A k \in 1..Len(good) :
                     /\ mine[k].date = good[k][2]
                     /\ mine[k].message = good[k][3]

\* The output of the i-th repository is made of four-field records with
\* nothing between them.
Synthetic(i) ==
    /\ ~gitLog[i].failed
    /\ gitLog[i].gap = <<>>
    /\ gitLog[i].records # <<>>
    /\ \A k \in 1..Len(gitLog[i].records) : Len(gitLog[i].records[k]) = 4

\* C3 as stated: parsing records hash 0x1f date 0x1f message 0x1f author 0x1e
\* gives, record by record, the four original field values.
C3_RoundTripExact ==
    fpc = "done" =>
        \A i \in 1..Len(repoPaths) :
            Synthetic(i) =>
                /\ Len(CommitsOf(i)) = Len(gitLog[i].records)
                /\ \A k \in 1..Len(gitLog[i].records) :
                      /\ CommitsOf(i)[k].hash = gitLog[i].records[k][1]
                      /\ CommitsOf(i)[k].date = gitLog[i].records[k][2]
                      /\ CommitsOf(i)[k].message = gitLog[i].records[k][3]
                      /\ CommitsOf(i)[k].author = gitLog[i].records[k][4]

\* C3 amended: hash, date and message are the original field values, for
\* subjects with | and : too; the author is the original field value when that
\* is not empty, and the effective author of the repository when it is.
C3_RoundTripAuthorFallback ==
    fpc = "done" =>
        \A i \in 1..Len(repoPaths) :
            Synthetic(i) =>
                /\ Len(CommitsOf(i)) = Len(gitLog[i].records)
                /\ \A k \in 1..Len(gitLog[i].records) :
                      /\ CommitsOf(i)[k].hash = gitLog[i].records[k][1]
                      /\ CommitsOf(i)[k].date = gitLog[i].records[k][2]
                      /\ CommitsOf(i)[k].message = gitLog[i].records[k][3]
                      /\ CommitsOf(i)[k].author =
                            IF gitLog[i].records[k][4] # <<>>
                            THEN gitLog[i].records[k][4]
                            ELSE gitLog[i].author

\* C3 witness: a synthetic output of two records was parsed; one subject holds
\* | and :, one author field is empty and was replaced by the effective author.
C3_Witness ==
    /\ fpc = "done"
    /\ \E i \in 1..Len(repoPaths) :
          /\ Synthetic(i)
          /\ Len(gitLog[i].records) = 2
          /\ gitLog[i].records[1][3] = <<"x", "|", ":">>
          /\ CommitsOf(i)[1].message = <<"x", "|", ":">>
          /\ gitLog[i].records[2][4] = <<>>
          /\ CommitsOf(i)[2].author = <<"u">>

\* The configured override holds a character that is not white space.
NotBlank(setting) ==
    setting # Undefined /\ \E k \in 1..Len(setting) : setting[k] \notin Whitespace

\* C12: for each repository the log query is constrained to the configured
\* override when the override is not blank, and the identity query is then not
\* run; otherwise it is constrained to the trimmed output of the identity
\* query; when that output is blank or the query failed the log query has no
\* author constraint, and the repository's records are returned all the same.
C12_AuthorOfLogQuery ==
    /\ Len(gitLog) <= Len(identity)
    /\ \A i \in 1..Len(gitLog) :
          LET q == identity[i]
              name == IF q.failed THEN <<>> ELSE trim(q.text)
          IN /\ NotBlank(authorSetting) =>
                   ~q.run /\ gitLog[i].authorFilter = trim(authorSetting)
             /\ ~NotBlank(authorSetting) =>
                   /\ q.run
                   /\ name # <<>> => gitLog[i].authorFilter = name
                   /\ name = <<>> => gitLog[i].authorFilter = Undefined
             /\ (fpc = "done" /\ gitLog[i].authorFilter = Undefined) =>
                   Len(CommitsOf(i)) = Len(gitLog[i].records)

\* C12 witness: with a blank override, the identity query of the first
\* repository failed and that of the second printed an empty name: both log
\* queries ran with no author constraint and the second's records came back.
C12_Witness ==
    /\ fpc = "done"
    /\ authorSetting = <<" ">>
    /\ Len(repoPaths) = 2
    /\ identity[1].run /\ identity[1].failed
    /\ identity[2].run /\ ~identity[2].failed
    /\ gitLog[1].authorFilter = Undefined
    /\ gitLog[2].authorFilter = Undefined
    /\ Len(gitLog[2].records) = 2
    /\ Len(CommitsOf(2)) = 2

(***************************************************************************)
(* Classification: normalize                                               *)
(***************************************************************************)
\* Bound of the messages explored: the length of a message.
MaxMsgLen == 3

LowerLetters ==
    <<"a", "b", "c", "d", "e", "f", "g", "h", "i", "j", "k", "l", "m",
      "n", "o", "p", "q", "r", "s", "t", "u", "v", "w", "x", "y", "z">>

UpperLetters ==
    <<"A", "B", "C", "D", "E", "F", "G", "H", "I", "J", "K", "L", "M",
      "N", "O", "P", "Q", "R", "S", "T", "U", "V", "W", "X", "Y", "Z">>

\* The character class [a-zA-Z].
IsLetter(c) == c \in Range(LowerLetters) \cup Range(UpperLetters)

\* String.prototype.toLowerCase on ASCII text.
toLowerCase(s) ==
    [i \in 1..Len(s) |->
        IF s[i] \in Range(UpperLetters)
        THEN LowerLetters[CHOOSE k \in 1..Len(UpperLetters) : UpperLetters[k] = s[i]]
        ELSE s[i]]

Other == <<"o", "t", "h", "e", "r">>

\* The lengths k at which /^([a-zA-Z]+)(?=\(|:)/ can match: k letters from the
\* start of the message, and an opening parenthesis or a colon right after.
MatchLengths(msg) ==
    {k \in 1..Len(msg) :
        /\ \A j \in 1..k : IsLetter(msg[j])
        /\ k < Len(msg)
        /\ msg[k + 1] \in {"(", ":"}}

\* Faulty variant of TypeOf: the pattern has no lookahead, /^([a-zA-Z]+)/.
TypeOfNoLookahead(msg) ==
    LET lengths == {k \in 1..Len(msg) : \A j \in 1..k : IsLetter(msg[j])}
    IN IF lengths = {} THEN Other
       ELSE toLowerCase(SubSeq(msg, 1, CHOOSE k \in lengths : \A l \in lengths : l <= k))

\* Faulty variant of TypeOf: the captured word is not lower-cased.
TypeOfSameCase(msg) ==
    IF MatchLengths(msg) = {} THEN Other
    ELSE SubSeq(msg, 1, CHOOSE k \in MatchLengths(msg) : \A l \in MatchLengths(msg) : l <= k)

\* The type normalize gives a commit: the greedy group of the match, lower-cased,
\* or "other" when the pattern does not match.
TypeOf(msg) ==
    IF MatchLengths(msg) = {} THEN Other
    ELSE toLowerCase(
            SubSeq(msg, 1, CHOOSE k \in MatchLengths(msg) : \A l \in MatchLengths(msg) : l <= k))

\* The three messages of the classification examples.
FeatMessage ==
    <<"f", "e", "a", "t", "(", "u", "i", ")", ":", " ", "a", "d", "d", " ",
      "b", "u", "t", "t", "o", "n">>

MergeMessage ==
    <<"M", "e", "r", "g", "e", " ", "b", "r", "a", "n", "c", "h", " ", "'", "x", "'">>

BumpMessage == <<"b", "u", "m", "p", " ", "d", "e", "p", "s">>

\* The messages explored: every message of at most MaxMsgLen characters over
\* a lower-case letter, an upper-case letter, a digit, a space, ( and :, and
\* the three examples.
MessageChars == {"f", "M", "1", " ", "(", ":"}

Messages ==
    UNION {[1..n -> MessageChars] : n \in 0..MaxMsgLen}
    \cup {FeatMessage, MergeMessage, BumpMessage}

InitClassify ==
    /\ message \in Messages
    /\ npc = "raw"
    /\ type = <<>>
    \* findGitRepos and fetchCommits are not running
    /\ roots = <<>> /\ fs = <<>> /\ wpc = "idle" /\ rootIdx = 0
    /\ queue = <<>> /\ repos = <<>> /\ listed = {} /\ visits = <<>> /\ found = <<>>
    /\ repoPaths = <<>> /\ authorSetting = <<>> /\ fpc = "idle" /\ repoIdx = 0
    /\ author = <<>> /\ raw = <<>> /\ gitLog = <<>> /\ identity = <<>> /\ allCommits = <<>> /\ fetched = <<>>
    \* the webview is not open
    /\ commits = <<>> /\ search = <<>> /\ typeFilter = <<>> /\ sort = "desc" /\ since = <<>>
    /\ daysBack = 0 /\ now = 0 /\ utcOffset = 0
    \* no message, no rendering, no command
    /\ loading = FALSE /\ collapsedDays = {} /\ viewRepos = <<>> /\ handled = <<>>
    /\ lastEvent = [kind |-> "none"]
    /\ rendered = <<>> /\ memo = <<>> /\ original = <<>>
    /\ selectedRepos = <<>> /\ workspaceState = <<>> /\ errors = <<>> /\ runs = <<>>
    /\ panels = <<>> /\ queries = 0

\* normalize on one commit: type is set from commit.message.
Normalize ==
    /\ npc = "raw"
    /\ type' = TypeOf(message)
    /\ npc' = "normalized"
    /\ UNCHANGED message

NextClassify == Normalize /\ UNCHANGED <<walkVars, fetchVars, viewVars, extraVars>>

SpecClassify == InitClassify /\ [][NextClassify]_vars

\* C4 as stated: "feat(ui): add button" gets feat, "Merge branch 'x'" gets
\* merge, "bump deps" gets other.
C4_ExamplesAsStated ==
    npc = "normalized" =>
        /\ message = FeatMessage => type = <<"f", "e", "a", "t">>
        /\ message = MergeMessage => type = <<"m", "e", "r", "g", "e">>
        /\ message = BumpMessage => type = Other

\* C4 amended: "feat(ui): add button" gets feat; "Merge branch 'x'" gets other,
\* its first word being followed by a space; "bump deps" gets other.
C4_Examples ==
    npc = "normalized" =>
        /\ message = FeatMessage => type = <<"f", "e", "a", "t">>
        /\ message = MergeMessage => type = Other
        /\ message = BumpMessage => type = Other

\* C4 witness: "Merge branch 'x'" has been normalized.
C4_Witness == npc = "normalized" /\ message = MergeMessage /\ type = Other

\* The length of the longest run of letters a message starts with.
LeadingRun(msg) ==
    CHOOSE k \in 0..Len(msg) :
        /\ \A j \in 1..k : IsLetter(msg[j])
        /\ k < Len(msg) => ~IsLetter(msg[k + 1])

\* C5: the type is the lower-cased longest leading run of letters when that
\* run is not empty and is followed at once by ( or :, and other in every other
\* case (empty message, leading non-letter, run followed by another character
\* or by the end of the message).
C5_LeadingWordRule ==
    npc = "normalized" =>
        LET run == LeadingRun(message)
        IN type = IF run >= 1 /\ run < Len(message) /\ message[run + 1] \in {"(", ":"}
                  THEN toLowerCase(SubSeq(message, 1, run))
                  ELSE Other

\* C5 witness: a message that starts with an upper-case letter and a colon got
\* the lower-cased letter as its type.
C5_Witness == npc = "normalized" /\ message = <<"M", ":", "f">> /\ type = <<"m">>

(***************************************************************************)
(* The webview: dates                                                      *)
(***************************************************************************)
\* Instants (Date.getTime()) are counted in half days since the epoch; a day,
\* 24 * 60 * 60 * 1000 ms, is two of them.
DayLen == 2

\* A calendar date string YYYY-MM-DD, held as its day number since the epoch.
IsoDate(d) == <<d>>

\* a > b on two calendar date strings.
DateAfter(a, b) == a[1] > b[1]

\* date.toISOString().slice(0, 10): the calendar date of an instant in UTC.
toISODate(t) == IsoDate(t \div DayLen)

\* The calendar date of an instant in the viewer's time zone.
LocalDate(t, offset) == IsoDate((t + offset) \div DayLen)

\* new Date(`${date}T00:00:00`): a date-time string without a zone is local
\* time, so this is the instant of the local midnight that starts the date.
LocalMidnight(date, offset) == date[1] * DayLen - offset

\* new Date(commit.date) on the %cI string of git: the committer's wall clock
\* and the committer's own offset from UTC give the instant.
ParseDate(date) == date.clock - date.offset

\* The initial value of since: the UTC calendar date of the instant daysBack
\* days before now.
SinceOfLookback(t, days) == toISODate(t - days * DayLen)

(***************************************************************************)
(* The webview: filtered                                                   *)
(***************************************************************************)
All == <<"a", "l", "l">>

typeKinds ==
    {<<"f", "e", "a", "t">>, <<"f", "i", "x">>, <<"r", "e", "f", "a", "c", "t", "o", "r">>,
     <<"b", "u", "i", "l", "d">>, <<"m", "e", "r", "g", "e">>}

\* The options of the type select.
TypeOptions == {All} \cup typeKinds \cup {Other}

\* normalize, on one raw commit.
NormalizeCommit(rawCommit) ==
    [hash |-> rawCommit.hash, message |-> rawCommit.message, date |-> rawCommit.date,
     type |-> TypeOf(rawCommit.message), dateObj |-> ParseDate(rawCommit.date)]

\* normalize, on a list of raw commits.
NormalizeAll(rawCommits) == [i \in 1..Len(rawCommits) |-> NormalizeCommit(rawCommits[i])]

\* The since test of the filter callback: sinceDate is null for an empty since.
PassesSince(commit, sinceValue, offset) ==
    ~(sinceValue # <<>> /\ commit.dateObj < LocalMidnight(sinceValue, offset))

\* Faulty variant of PassesType: no special case for the option other.
PassesTypeExact(commit, option) == option = All \/ commit.type = option

\* The type test of the filter callback.
PassesType(commit, option) ==
    IF option # All /\ commit.type # option
    THEN option = Other /\ commit.type \notin typeKinds
    ELSE TRUE

\* String.prototype.includes.
includes(s, t) == \E i \in 0..(Len(s) - Len(t)) : SubSeq(s, i + 1, i + Len(t)) = t

\* message.match(/\((.*?)\)/): the leftmost ( that has a ) after it, and the
\* shortest text up to a ); scopeMatch[1], or "" when there is no match.
ScopeOf(msg) ==
    LET opens == {i \in 1..Len(msg) : msg[i] = "(" /\ \E j \in (i + 1)..Len(msg) : msg[j] = ")"}
    IN IF opens = {} THEN <<>>
       ELSE LET i == CHOOSE i \in opens : \A k \in opens : i <= k
                closes == {j \in (i + 1)..Len(msg) : msg[j] = ")"}
                j == CHOOSE j \in closes : \A k \in closes : j <= k
            IN SubSeq(msg, i + 1, j - 1)

\* Faulty variant of Matches: the message and the scope are not lower-cased.
MatchesSameCase(commit, term) ==
    \/ term = <<>>
    \/ includes(commit.message, term)
    \/ includes(toLowerCase(commit.hash), term)
    \/ includes(ScopeOf(commit.message), term)

\* Faulty variant of Matches: the message is tested as typed, the scope
\* lower-cased.
MatchesMessageAsTyped(commit, term) ==
    \/ term = <<>>
    \/ includes(commit.message, term)
    \/ includes(toLowerCase(commit.hash), term)
    \/ includes(toLowerCase(ScopeOf(commit.message)), term)

\* The search test of the filter callback, term being the trimmed, lower-cased
\* search text.
Matches(commit, term) ==
    \/ term = <<>>
    \/ includes(toLowerCase(commit.message), term)
    \/ includes(toLowerCase(commit.hash), term)
    \/ includes(toLowerCase(ScopeOf(commit.message)), term)

\* The filter callback.
Keep(commit) ==
    /\ PassesSince(commit, since, utcOffset)
    /\ PassesType(commit, typeFilter)
    /\ Matches(commit, toLowerCase(trim(search)))

\* The comparator of both sorts: negative when a goes first.
compare(a, b, dir) == IF dir = "desc" THEN b.dateObj - a.dateObj ELSE a.dateObj - b.dateObj

\* One step of a stable sort: x goes after every element it does not precede.
RECURSIVE InsertSorted(_, _, _)
InsertSorted(sorted, x, dir) ==
    IF sorted = <<>> THEN <<x>>
    ELSE IF compare(sorted[Len(sorted)], x, dir) <= 0 THEN Append(sorted, x)
    ELSE Append(InsertSorted(SubSeq(sorted, 1, Len(sorted) - 1), x, dir), sorted[Len(sorted)])

RECURSIVE StableSort(_, _)
StableSort(list, dir) ==
    IF list = <<>> THEN <<>>
    ELSE InsertSorted(StableSort(SubSeq(list, 1, Len(list) - 1), dir), list[Len(list)], dir)

Reverse(list) == [i \in 1..Len(list) |-> list[Len(list) + 1 - i]]

\* Faulty variant of SortByDate: the ascending order is the descending one reversed.
SortByDateReversing(list, dir) ==
    IF dir = "desc" THEN StableSort(list, "desc") ELSE Reverse(StableSort(list, "desc"))

\* Array.prototype.sort with the comparator above: a stable sort.
SortByDate(list, dir) == StableSort(list, dir)

\* filtered.value when sort.value is dir.
FilteredBy(dir) == SortByDate(SelectSeq(commits, Keep), dir)

\* filtered.value
filtered == FilteredBy(sort)

(***************************************************************************)
(* The webview: grouped                                                    *)
(***************************************************************************)
\* Faulty variant of Push: the group of a key starts again at every commit.
PushAlone(map, key, commit) == (key :> <<commit>>) @@ map

\* if (!map[key]) map[key] = []; map[key].push(commit);
Push(map, key, commit) ==
    IF key \in DOMAIN map THEN [map EXCEPT ![key] = Append(@, commit)]
    ELSE map @@ (key :> <<commit>>)

\* The forEach of grouped: the map from day key to the commits of that key.
RECURSIVE GroupByDay(_, _)
GroupByDay(map, list) ==
    IF list = <<>> THEN map
    ELSE GroupByDay(Push(map, toISODate(Head(list).dateObj), Head(list)), Tail(list))

\* Distinct keys in the order of direction dir.
RECURSIVE KeysInOrder(_, _)
KeysInOrder(keys, dir) ==
    IF keys = {} THEN <<>>
    ELSE LET first == CHOOSE k \in keys :
                          \A o \in keys \ {k} :
                              IF dir = "desc" THEN DateAfter(k, o) ELSE DateAfter(o, k)
         IN <<first>> \o KeysInOrder(keys \ {first}, dir)

\* Faulty variant of SortKeys: the newest day comes first in both directions.
SortKeysNewestFirst(keys, dir) == KeysInOrder(keys, "desc")

\* Object.keys(map).sort(...): the comparator never returns 0 and the keys
\* are distinct, so the result is the keys in the order of the direction.
SortKeys(keys, dir) == KeysInOrder(keys, dir)

\* Faulty variant of CountLabel: always the plural.
CountLabelPlural(n) == <<n, "commits">>

\* `${n} commit${n === 1 ? "" : "s"}`
CountLabel(n) == <<n, IF n = 1 THEN "commit" ELSE "commits">>

\* formatDateLabel: the local calendar date of the local midnight of the key,
\* which is the text the label shows.
formatDateLabel(key, offset) == LocalDate(LocalMidnight(key, offset), offset)

\* grouped.value when sort.value is dir.
GroupedBy(dir) ==
    LET map == GroupByDay(<<>>, FilteredBy(dir))
        keys == SortKeys(DOMAIN map, dir)
    IN [i \in 1..Len(keys) |->
           [key |-> keys[i],
            label |-> formatDateLabel(keys[i], utcOffset),
            countLabel |-> CountLabel(Len(map[keys[i]])),
            items |-> SortByDate(map[keys[i]], dir)]]

\* grouped.value
grouped == GroupedBy(sort)

(***************************************************************************)
(* The webview: the controls                                               *)
(***************************************************************************)
\* All the lists of at most n elements of a pool.
ListsOf(pool, n) == UNION {[1..k -> pool] : k \in 0..n}

\* Clicks on the two sort buttons.
SortDesc ==
    /\ sort # "desc"
    /\ sort' = "desc"
    /\ UNCHANGED <<commits, search, typeFilter, since, daysBack, now, utcOffset>>

SortAsc ==
    /\ sort # "asc"
    /\ sort' = "asc"
    /\ UNCHANGED <<commits, search, typeFilter, since, daysBack, now, utcOffset>>

\* The date input is cleared.
ClearSince ==
    /\ since # <<>>
    /\ since' = <<>>
    /\ UNCHANGED <<commits, search, typeFilter, sort, daysBack, now, utcOffset>>

(***************************************************************************)
(* The webview: type and search filters                                    *)
(***************************************************************************)
\* Bound of the commit lists explored with the type and search controls.
MaxFilterCommits == 2

\* Messages of every type of the vocabulary, of the literal type other, of a
\* type outside the vocabulary, and without a type; one has a scope, one holds
\* the scope's letters in upper case.
FilterMessages ==
    {<<"f", "e", "a", "t", "(", "u", "i", ")", ":", " ", "x">>,
     <<"f", "i", "x", ":", " ", "U", "I">>,
     <<"r", "e", "f", "a", "c", "t", "o", "r", ":", " ", "a">>,
     <<"b", "u", "i", "l", "d", ":", " ", "b">>,
     <<"m", "e", "r", "g", "e", ":", " ", "c">>,
     <<"o", "t", "h", "e", "r", ":", " ", "d">>,
     <<"c", "h", "o", "r", "e", ":", " ", "e">>,
     <<"b", "u", "m", "p">>}

FilterHashes == {<<"a", "1">>, <<"b", "2">>}

FilterPool ==
    {[hash |-> h, message |-> msg, date |-> [clock |-> 4, offset |-> 0]] :
        h \in FilterHashes, msg \in FilterMessages}

\* What is typed in the search box.
SearchInputs == {<<>>, <<" ", "U", "I", " ">>, <<"a", "1">>, <<"z">>}

InitFilter ==
    /\ commits \in {NormalizeAll(rawCommits) : rawCommits \in ListsOf(FilterPool, MaxFilterCommits)}
    /\ search = <<>>
    /\ typeFilter = All
    /\ sort = "desc"
    /\ daysBack = 1
    /\ now = 5
    /\ utcOffset = 0
    /\ since = SinceOfLookback(now, daysBack)
    \* the extension host is not running
    /\ roots = <<>> /\ fs = <<>> /\ wpc = "idle" /\ rootIdx = 0
    /\ queue = <<>> /\ repos = <<>> /\ listed = {} /\ visits = <<>> /\ found = <<>>
    /\ repoPaths = <<>> /\ authorSetting = <<>> /\ fpc = "idle" /\ repoIdx = 0
    /\ author = <<>> /\ raw = <<>> /\ gitLog = <<>> /\ identity = <<>> /\ allCommits = <<>> /\ fetched = <<>>
    /\ message = <<>> /\ npc = "idle" /\ type = <<>>
    \* no message, no rendering, no command
    /\ loading = FALSE /\ collapsedDays = {} /\ viewRepos = <<>> /\ handled = <<>>
    /\ lastEvent = [kind |-> "none"]
    /\ rendered = <<>> /\ memo = <<>> /\ original = <<>>
    /\ selectedRepos = <<>> /\ workspaceState = <<>> /\ errors = <<>> /\ runs = <<>>
    /\ panels = <<>> /\ queries = 0

\* Typing in the search box.
SetSearch ==
    /\ \E text \in SearchInputs : text # search /\ search' = text
    /\ UNCHANGED <<commits, typeFilter, sort, since, daysBack, now, utcOffset>>

\* Choosing an option of the type select.
SetTypeFilter ==
    /\ \E option \in TypeOptions : option # typeFilter /\ typeFilter' = option
    /\ UNCHANGED <<commits, search, sort, since, daysBack, now, utcOffset>>

NextFilter ==
    \/ SetSearch /\ UNCHANGED <<walkVars, fetchVars, normVars, extraVars>>
    \/ SetTypeFilter /\ UNCHANGED <<walkVars, fetchVars, normVars, extraVars>>
    \/ ClearSince /\ UNCHANGED <<walkVars, fetchVars, normVars, extraVars>>

SpecFilter == InitFilter /\ [][NextFilter]_vars

\* The number of times x occurs in list.
Count(list, x) == Cardinality({i \in 1..Len(list) : list[i] = x})

\* Two lists hold the same elements the same number of times.
SameElements(s, t) == \A x \in Range(s) \cup Range(t) : Count(s, x) = Count(t, x)

\* C13: with an empty search and an empty since, the visible commits are all
\* the commits under the option all, the commits of that type under one of the
\* five type words, and the commits of any other type under the option other.
C13_TypeFilter ==
    (search = <<>> /\ since = <<>>) =>
        /\ typeFilter = All => SameElements(filtered, commits)
        /\ typeFilter \in typeKinds =>
              SameElements(filtered, SelectSeq(commits, LAMBDA c : c.type = typeFilter))
        /\ typeFilter = Other =>
              SameElements(filtered, SelectSeq(commits, LAMBDA c : c.type \notin typeKinds))

\* C13 witness: under the option other, a commit of type chore is visible and
\* a commit of type feat is not.
C13_Witness ==
    /\ search = <<>>
    /\ since = <<>>
    /\ typeFilter = Other
    /\ Len(commits) = 2
    /\ commits[1].type = <<"f", "e", "a", "t">>
    /\ commits[2].type = <<"c", "h", "o", "r", "e">>
    /\ filtered = <<commits[2]>>

\* t occurs in s.
IsSubstring(t, s) ==
    \E i \in 0..Len(s) : i + Len(t) <= Len(s) /\ \A k \in 1..Len(t) : s[i + k] = t[k]

\* The text between the first ( of a message and the next ), empty when
\* either is missing.
ScopeText(msg) ==
    LET opens == {i \in 1..Len(msg) : msg[i] = "("}
    IN IF opens = {} THEN <<>>
       ELSE LET first == CHOOSE i \in opens : \A k \in opens : i <= k
                closes == {j \in (first + 1)..Len(msg) : msg[j] = ")"}
            IN IF closes = {} THEN <<>>
               ELSE SubSeq(msg, first + 1, (CHOOSE j \in closes : \A k \in closes : j <= k) - 1)

\* C14: among the commits that pass the since and type tests, the visible ones
\* are those for which the trimmed, lower-cased search text is empty or occurs
\* in the lower-cased message, in the lower-cased hash, or in the lower-cased
\* text between the first ( and the next ) of the message.
C14_SearchFilter ==
    LET term == toLowerCase(trim(search))
        passing == SelectSeq(commits,
                       LAMBDA c : PassesSince(c, since, utcOffset) /\ PassesType(c, typeFilter))
    IN SameElements(filtered,
           SelectSeq(passing,
               LAMBDA c : \/ term = <<>>
                          \/ IsSubstring(term, toLowerCase(c.message))
                          \/ IsSubstring(term, toLowerCase(c.hash))
                          \/ IsSubstring(term, toLowerCase(ScopeText(c.message)))))

\* C14 witness: the search text " UI " shows the commit "fix: UI" and hides a
\* commit whose message, hash and scope do not hold "ui".
C14_Witness ==
    /\ search = <<" ", "U", "I", " ">>
    /\ Len(commits) = 2
    /\ commits[1].message = <<"f", "i", "x", ":", " ", "U", "I">>
    /\ commits[2].message = <<"b", "u", "m", "p">>
    /\ filtered = <<commits[1]>>

(***************************************************************************)
(* The webview: since, sort and day groups                                 *)
(***************************************************************************)
\* Bound of the commit lists explored with the since and sort controls.
MaxGroupCommits == 3

\* Commit dates over two days, in UTC, and one written with the committer's
\* offset of half a day.
GroupDates ==
    {[clock |-> c, offset |-> 0] : c \in 0..3} \cup {[clock |-> 3, offset |-> 1]}

GroupPool ==
    {[hash |-> h, message |-> <<"f", "i", "x", ":", " ", "U", "I">>, date |-> d] :
        h \in FilterHashes, d \in GroupDates}

\* The viewer's zone: half a day behind UTC, UTC, half a day ahead.
Offsets == {-1, 0, 1}

\* commitTimesheet.daysBack
DaysBackValues == {1, 2}

\* The dates picked in the date input.
SincePicks == {IsoDate(1), IsoDate(2)}

InitGroup ==
    /\ commits \in {NormalizeAll(rawCommits) : rawCommits \in ListsOf(GroupPool, MaxGroupCommits)}
    /\ search = <<>>
    /\ typeFilter = All
    /\ sort = "desc"
    /\ daysBack \in DaysBackValues
    /\ now = 5
    /\ utcOffset \in Offsets
    /\ since = SinceOfLookback(now, daysBack)
    \* the extension host is not running
    /\ roots = <<>> /\ fs = <<>> /\ wpc = "idle" /\ rootIdx = 0
    /\ queue = <<>> /\ repos = <<>> /\ listed = {} /\ visits = <<>> /\ found = <<>>
    /\ repoPaths = <<>> /\ authorSetting = <<>> /\ fpc = "idle" /\ repoIdx = 0
    /\ author = <<>> /\ raw = <<>> /\ gitLog = <<>> /\ identity = <<>> /\ allCommits = <<>> /\ fetched = <<>>
    /\ message = <<>> /\ npc = "idle" /\ type = <<>>
    \* no message, no rendering, no command
    /\ loading = FALSE /\ collapsedDays = {} /\ viewRepos = <<>> /\ handled = <<>>
    /\ lastEvent = [kind |-> "none"]
    /\ rendered = <<>> /\ memo = <<>> /\ original = <<>>
    /\ selectedRepos = <<>> /\ workspaceState = <<>> /\ errors = <<>> /\ runs = <<>>
    /\ panels = <<>> /\ queries = 0

\* A date is picked in the date input.
PickSince ==
    /\ \E d \in SincePicks : d # since /\ since' = d
    /\ UNCHANGED <<commits, search, typeFilter, sort, daysBack, now, utcOffset>>

NextGroup ==
    \/ SortDesc /\ UNCHANGED <<walkVars, fetchVars, normVars, extraVars>>
    \/ SortAsc /\ UNCHANGED <<walkVars, fetchVars, normVars, extraVars>>
    \/ PickSince /\ UNCHANGED <<walkVars, fetchVars, normVars, extraVars>>
    \/ ClearSince /\ UNCHANGED <<walkVars, fetchVars, normVars, extraVars>>

SpecGroup == InitGroup /\ [][NextGroup]_vars

\* since still has the value derived from the lookback.
SinceIsLookback == since = SinceOfLookback(now, daysBack)

\* The first instant of the day, in the viewer's zone and in UTC, that holds
\* the instant daysBack days before now.
LookbackDayStartLocal ==
    LocalMidnight(LocalDate(now - daysBack * DayLen, utcOffset), utcOffset)

LookbackDayStartUTC == ((now - daysBack * DayLen) \div DayLen) * DayLen

\* C15: with a since date set, every visible commit is at or after the first
\* instant of the since day, and a commit on the since day (its first instant
\* included) is not dropped by the since test; and while since is the date
\* derived from the lookback, no visible commit is older than the start of the
\* day daysBack days before now (in the viewer's zone or, at least, in UTC).
C15_SinceBound ==
    since # <<>> =>
        /\ \A c \in Range(filtered) : c.dateObj >= LocalMidnight(since, utcOffset)
        /\ \A c \in Range(commits) :
              (LocalDate(c.dateObj, utcOffset) = since /\ search = <<>> /\ typeFilter = All)
                  => c \in Range(filtered)
        /\ SinceIsLookback =>
              \A c \in Range(filtered) :
                  c.dateObj >= LookbackDayStartLocal \/ c.dateObj >= LookbackDayStartUTC

\* C16: filtered holds the commits that pass the filter callback, each as many
\* times as the commit list does, by timestamp non-increasing under desc and
\* non-decreasing under asc, and the commits of one timestamp are in the order
\* they have in the commit list, in both directions.
C16_SortedStable ==
    LET passing == SelectSeq(commits, Keep)
        shown == filtered
    IN /\ SameElements(shown, passing)
       /\ \A i \in 1..(Len(shown) - 1) :
             IF sort = "desc" THEN shown[i].dateObj >= shown[i + 1].dateObj
             ELSE shown[i].dateObj <= shown[i + 1].dateObj
       /\ \A t \in {c.dateObj : c \in Range(passing)} :
             SelectSeq(shown, LAMBDA c : c.dateObj = t)
                 = SelectSeq(passing, LAMBDA c : c.dateObj = t)

\* C16 witness: oldest first, two different commits of one instant follow an
\* older commit that came after them in the commit list, in their input order.
C16_Witness ==
    /\ sort = "asc"
    /\ Len(commits) = 3
    /\ commits[1].dateObj = commits[2].dateObj
    /\ commits[1].hash # commits[2].hash
    /\ commits[3].dateObj < commits[1].dateObj
    /\ filtered = <<commits[3], commits[1], commits[2]>>

\* The number of commits in all the groups.
RECURSIVE TotalItems(_)
TotalItems(groups) ==
    IF groups = <<>> THEN 0 ELSE Len(Head(groups).items) + TotalItems(Tail(groups))

\* C17: every visible commit is in exactly one group, the one whose key is
\* the commit's day key, as many times as it is visible; no group is empty,
\* no group holds a commit that is not visible, no key is used twice, and the
\* sizes of the groups add up to the number of visible commits.
C17_GroupsPartition ==
    LET groups == grouped
        shown == filtered
    IN /\ \A g \in 1..Len(groups) :
             /\ groups[g].items # <<>>
             /\ \A c \in Range(groups[g].items) :
                   c \in Range(shown) /\ toISODate(c.dateObj) = groups[g].key
       /\ \A g, h \in 1..Len(groups) : groups[g].key = groups[h].key => g = h
       /\ \A x \in Range(shown) :
             \E g \in 1..Len(groups) :
                 /\ groups[g].key = toISODate(x.dateObj)
                 /\ Count(groups[g].items, x) = Count(shown, x)
       /\ TotalItems(groups) = Len(shown)

\* C17 witness: a since date has been picked; of three commits one is hidden
\* by it and the two others, of one day, are the only group.
C17_Witness ==
    /\ since = IsoDate(1)
    /\ ~SinceIsLookback
    /\ Len(commits) = 3
    /\ Len(filtered) = 2
    /\ Len(grouped) = 1
    /\ Len(grouped[1].items) = 2
    /\ grouped[1].items[1] # grouped[1].items[2]

\* The index of the group, among groups, that holds commit c.
GroupOf(groups, c) == CHOOSE g \in 1..Len(groups) : c \in Range(groups[g].items)

\* C18: the key of the group a commit is in is the calendar date of its
\* timestamp in the viewer's zone; two visible commits of one local day are in
\* one group and two of different local days are not.
C18_KeyIsLocalDate ==
    LET groups == grouped
    IN /\ \A g \in 1..Len(groups) :
             \A c \in Range(groups[g].items) :
                 groups[g].key = LocalDate(c.dateObj, utcOffset)
       /\ \A c, d \in Range(filtered) :
             (LocalDate(c.dateObj, utcOffset) = LocalDate(d.dateObj, utcOffset))
                 <=> (GroupOf(groups, c) = GroupOf(groups, d))

\* The items of the groups, one group after the other.
RECURSIVE Flatten(_)
Flatten(groups) == IF groups = <<>> THEN <<>> ELSE Head(groups).items \o Flatten(Tail(groups))

\* The timestamps of a list go in direction dir.
Monotone(list, dir) ==
    \A i \in 1..(Len(list) - 1) :
        IF dir = "desc" THEN list[i].dateObj >= list[i + 1].dateObj
        ELSE list[i].dateObj <= list[i + 1].dateObj

\* C19: in both directions the groups are in the order of their keys in the
\* active direction, the items of every group are in the order of their
\* timestamps in that direction, and the items of the groups, taken group
\* after group, are the filtered sequence, monotone in that direction.
C19_OrderedBothLevels ==
    LET groups == grouped
        all == Flatten(groups)
    IN /\ \A g \in 1..(Len(groups) - 1) :
             IF sort = "desc" THEN DateAfter(groups[g].key, groups[g + 1].key)
             ELSE DateAfter(groups[g + 1].key, groups[g].key)
       /\ \A g \in 1..Len(groups) : Monotone(groups[g].items, sort)
       /\ Monotone(all, sort)
       /\ all = filtered

\* C19 witness: oldest first, two groups, the first with two commits of
\* different instants, the older one first.
C19_Witness ==
    /\ sort = "asc"
    /\ Len(grouped) = 2
    /\ DateAfter(grouped[2].key, grouped[1].key)
    /\ Len(grouped[1].items) = 2
    /\ grouped[1].items[1].dateObj < grouped[1].items[2].dateObj
    /\ commits[1].dateObj > commits[2].dateObj

\* C20: for the same commit list, search, type and since, the keys under asc
\* are the keys under desc in reverse, and the group of a key has the same
\* members and the same count label under both; the label is the item count
\* followed by commit for one item and by commits otherwise.
C20_DirectionsMirror ==
    LET asc == GroupedBy("asc")
        desc == GroupedBy("desc")
    IN /\ Len(asc) = Len(desc)
       /\ \A i \in 1..Len(asc) :
             LET a == asc[i]
                 d == desc[Len(desc) + 1 - i]
             IN /\ a.key = d.key
                /\ SameElements(a.items, d.items)
                /\ a.countLabel = d.countLabel
                /\ a.countLabel = <<Len(a.items), IF Len(a.items) = 1 THEN "commit" ELSE "commits">>

\* C20 witness: two commits on one day and one on the next; newest first gives
\* the later day with "1 commit", then the earlier with "2 commits"; the
\* direction has been switched to oldest first and the earlier day comes first.
C20_Witness ==
    /\ sort = "asc"
    /\ Len(GroupedBy("desc")) = 2
    /\ GroupedBy("desc")[1].countLabel = <<1, "commit">>
    /\ GroupedBy("desc")[2].countLabel = <<2, "commits">>
    /\ grouped[1].key = GroupedBy("desc")[2].key
    /\ grouped[1].countLabel = <<2, "commits">>
    /\ grouped[2].countLabel = <<1, "commit">>

(***************************************************************************)
(* The webview: the stats                                                  *)
(***************************************************************************)
\* The text shown when a stat has nothing to show (a dash).
Placeholder == <<"-">>

\* Faulty variant of BucketOf: every type is its own bucket.
BucketOfRaw(commit) == commit.type

\* The key a commit is counted under: its type when it is one of typeKinds,
\* else "other".
BucketOf(commit) == IF commit.type \in typeKinds THEN commit.type ELSE Other

\* The reduce of dominantTypeLabel: the entries <<key, count>> of counts, in
\* the order the keys were first met.
RECURSIVE Tally(_, _)
Tally(entries, list) ==
    IF list = <<>> THEN entries
    ELSE LET key == BucketOf(Head(list))
             hit == {i \in 1..Len(entries) : entries[i][1] = key}
         IN Tally(IF hit = {} THEN Append(entries, <<key, 1>>)
                  ELSE [entries EXCEPT ![CHOOSE i \in hit : TRUE] = <<key, @[2] + 1>>],
                  Tail(list))

\* Object.entries(counts).sort((a, b) => b[1] - a[1])[0]: the sort is stable,
\* so this is the first entry whose count is the greatest.
TopEntry(entries) ==
    entries[CHOOSE i \in 1..Len(entries) :
                /\ \A j \in 1..Len(entries) : entries[j][2] <= entries[i][2]
                /\ \A j \in 1..(i - 1) : entries[j][2] < entries[i][2]]

\* dominantTypeLabel.value: `${topType} (${topCount})`, or the dash.
dominantTypeLabel ==
    LET entries == Tally(<<>>, filtered)
    IN IF entries = <<>> THEN Placeholder ELSE TopEntry(entries)

\* date.toLocaleString(): the wall clock of the instant in the viewer's zone.
toLocaleString(t, offset) == [localClock |-> t + offset]

\* Faulty variant of LastOf: the first element in both directions.
LastOfFirst(list, dir) == list[1]

\* The commit lastCommitLabel names.
LastOf(list, dir) == IF dir = "desc" THEN list[1] ELSE list[Len(list)]

\* lastCommitLabel.value: the message, a dash and the local date, or the dash.
lastCommitLabel ==
    IF filtered = <<>> THEN Placeholder
    ELSE LET last == LastOf(filtered, sort)
         IN <<last.message, toLocaleString(last.dateObj, utcOffset)>>

\* The six buckets of the dominant-type stat.
SixBuckets == typeKinds \cup {Other}

\* The number of commits of list counted under bucket b.
InBucket(list, b) ==
    Cardinality({i \in 1..Len(list) :
        IF b = Other THEN list[i].type \notin typeKinds ELSE list[i].type = b})

RECURSIVE SumOfCounts(_)
SumOfCounts(entries) ==
    IF entries = <<>> THEN 0 ELSE Head(entries)[2] + SumOfCounts(Tail(entries))

\* C22: the dominant-type stat counts the visible commits, every type outside
\* the five words under other; it names one of the six buckets with the
\* greatest count and shows that count; the counts of the buckets add up to
\* the number of visible commits; it is the dash exactly when nothing is visible.
C22_DominantType ==
    LET shown == filtered
        entries == Tally(<<>>, shown)
        label == dominantTypeLabel
    IN /\ (shown = <<>>) <=> (label = Placeholder)
       /\ \A i \in 1..Len(entries) :
             entries[i][1] \in SixBuckets /\ entries[i][2] = InBucket(shown, entries[i][1])
       /\ SumOfCounts(entries) = Len(shown)
       /\ shown # <<>> =>
             \E b \in SixBuckets :
                 /\ label = <<b, InBucket(shown, b)>>
                 /\ \A o \in SixBuckets : InBucket(shown, o) <= InBucket(shown, b)

\* C22 witness: two visible commits of types outside the vocabulary (chore
\* and none) make other the dominant type with the count 2.
C22_Witness ==
    /\ Len(filtered) = 2
    /\ filtered[1].type = <<"c", "h", "o", "r", "e">>
    /\ filtered[2].message = <<"b", "u", "m", "p">>
    /\ typeFilter = Other
    /\ dominantTypeLabel = <<Other, 2>>

\* The label of the last-commit stat for commit c.
LabelOf(c) == <<c.message, toLocaleString(c.dateObj, utcOffset)>>

\* C23 as stated: the last-commit stat is the dash exactly when nothing is
\* visible; else it names a most recent visible commit under desc and a least
\* recent visible commit under asc.
C23_LastByDirection ==
    LET shown == filtered
    IN /\ (shown = <<>>) <=> (lastCommitLabel = Placeholder)
       /\ shown # <<>> =>
             \E c \in Range(shown) :
                 /\ lastCommitLabel = LabelOf(c)
                 /\ \A o \in Range(shown) :
                       IF sort = "desc" THEN o.dateObj <= c.dateObj ELSE o.dateObj >= c.dateObj

\* C23 as amended: the last-commit stat is the dash exactly when nothing is
\* visible; else it names a most recent visible commit, in both directions.
C23_LastIsMostRecent ==
    LET shown == filtered
    IN /\ (shown = <<>>) <=> (lastCommitLabel = Placeholder)
       /\ shown # <<>> =>
             \E c \in Range(shown) :
                 /\ lastCommitLabel = LabelOf(c)
                 /\ \A o \in Range(shown) : o.dateObj <= c.dateObj

\* C23 witness: oldest first, two visible commits of different instants: the
\* stat names the newer one, the last of the list.
C23_Witness ==
    /\ sort = "asc"
    /\ Len(filtered) = 2
    /\ filtered[1].dateObj < filtered[2].dateObj
    /\ lastCommitLabel = LabelOf(filtered[2])

(***************************************************************************)
(* The webview: rendering the computed refs                                *)
(***************************************************************************)
\* Bound of the commit lists explored with repeated renderings.
MaxRenderCommits == 2

\* The controls the computed refs read.
ViewState == <<search, typeFilter, sort, since>>

\* The values of the computed refs.
Computed ==
    [filtered |-> filtered, grouped |-> grouped,
     dominantTypeLabel |-> dominantTypeLabel, lastCommitLabel |-> lastCommitLabel]

\* Faulty variant of CommitsAfterRender: sort() is called on commits.value itself.
CommitsSortedInPlace(list, dir) == SortByDate(list, dir)

\* commits.value after the computed refs are evaluated: filter() returns a
\* new array, reduce() and forEach() only read, and every sort() is called on
\* an array made in the same evaluation, so the stored list is not touched.
CommitsAfterRender(list, dir) == list

InitRender ==
    /\ commits \in {NormalizeAll(rawCommits) : rawCommits \in ListsOf(GroupPool, MaxRenderCommits)}
    /\ search = <<>>
    /\ typeFilter = All
    /\ sort = "desc"
    /\ daysBack = 1
    /\ now = 5
    /\ utcOffset = 0
    /\ since = SinceOfLookback(now, daysBack)
    /\ original = commits
    /\ rendered = [state |-> ViewState, values |-> Computed]
    /\ memo = (ViewState :> [values |-> Computed, again |-> FALSE])
    /\ loading = FALSE /\ collapsedDays = {} /\ viewRepos = <<>> /\ handled = <<>>
    /\ lastEvent = [kind |-> "none"]
    \* the extension host is not running
    /\ roots = <<>> /\ fs = <<>> /\ wpc = "idle" /\ rootIdx = 0
    /\ queue = <<>> /\ repos = <<>> /\ listed = {} /\ visits = <<>> /\ found = <<>>
    /\ repoPaths = <<>> /\ authorSetting = <<>> /\ fpc = "idle" /\ repoIdx = 0
    /\ author = <<>> /\ raw = <<>> /\ gitLog = <<>> /\ identity = <<>> /\ allCommits = <<>> /\ fetched = <<>>
    /\ message = <<>> /\ npc = "idle" /\ type = <<>>
    /\ selectedRepos = <<>> /\ workspaceState = <<>> /\ errors = <<>> /\ runs = <<>>
    /\ panels = <<>> /\ queries = 0

\* The component renders: every computed ref is evaluated.
Render ==
    /\ rendered' = [state |-> ViewState, values |-> Computed]
    /\ memo' = IF ViewState \notin DOMAIN memo
               THEN memo @@ (ViewState :> [values |-> Computed, again |-> FALSE])
               ELSE IF rendered.state # ViewState
               THEN [memo EXCEPT ![ViewState].again = TRUE]
               ELSE memo
    /\ commits' = CommitsAfterRender(commits, sort)
    /\ UNCHANGED <<search, typeFilter, sort, since, daysBack, now, utcOffset, original>>

NextRender ==
    \/ SortDesc /\ UNCHANGED <<walkVars, fetchVars, normVars, extraVars>>
    \/ SortAsc /\ UNCHANGED <<walkVars, fetchVars, normVars, extraVars>>
    \/ ClearSince /\ UNCHANGED <<walkVars, fetchVars, normVars, extraVars>>
    \/ Render /\ UNCHANGED <<walkVars, fetchVars, normVars, uiVars, hostVars>>

SpecRender == InitRender /\ [][NextRender]_vars

MaxCommands == 2

\* Bound of the intents (refresh, copy) the webviews of all panels send.
MaxIntents == 2

\* The repositories of the workspace, and the lists findGitRepos can return.
HostRepos == {"r1", "r2"}

HostRepoLists == {<<>>, <<"r1">>, <<"r1", "r2">>}

\* The value of the setting commitTimesheet.daysBack, read by getDaysBack.
ConfigDaysBack == {30}

\* What the log query of each repository gives: the query of r1 prints one
\* record, the query of r2 fails (safeExec returns '').
HostLog == [r \in HostRepos |-> IF r = "r1" THEN "ok" ELSE "fail"]

Null == <<"null">>

AllItem == "__all__"

NoWorkspace == "Open a workspace to load commits."

NoRepositories == "No git repositories found in the workspace."

\* fetchCommits as activate sees it: nothing for null or an empty list,
\* else the commits of every repository whose query gave output, in the
\* order of the list, each with its repoPath.
RECURSIVE CommitsFrom(_, _)
CommitsFrom(list, log) ==
    IF list = <<>> THEN <<>>
    ELSE (IF log[Head(list)] = "ok" THEN <<[repoPath |-> Head(list)]>> ELSE <<>>)
         \o CommitsFrom(Tail(list), log)

FetchedFrom(list, log) ==
    IF list = Null \/ Len(list) = 0 THEN <<>> ELSE CommitsFrom(list, log)

\* The number of log queries fetchCommits runs: one per repository of the list.
QueriedBy(list) == IF list = Null \/ Len(list) = 0 THEN 0 ELSE Len(list)

\* if (!repos || !repos.length) return;
OpensAlways(result) == TRUE

Opens(result) == result # Null /\ Len(result) > 0

\* The selection the quick pick gives: every repository found when the item
\* All repositories is among the picked ones, else the picked repositories.
Selected(list, picked) ==
    IF AllItem \in picked THEN list
    ELSE SelectSeq(list, LAMBDA r : r \in picked)

\* The messages the handler posts for a refresh intent.
RefreshRepliesTwice(reply) == <<reply, reply>>

RefreshReplies(reply) == <<reply>>

InitHost ==
    /\ selectedRepos = <<>>
    /\ workspaceState = <<>>
    /\ errors = <<>>
    /\ runs = <<>>
    /\ panels = <<>>
    /\ queries = 0
    \* no walk, no fetch, no classification, no view outside the panels
    /\ roots = <<>> /\ fs = <<>> /\ wpc = "idle" /\ rootIdx = 0
    /\ queue = <<>> /\ repos = <<>> /\ listed = {} /\ visits = <<>> /\ found = <<>>
    /\ repoPaths = <<>> /\ authorSetting = <<>> /\ fpc = "idle" /\ repoIdx = 0
    /\ author = <<>> /\ raw = <<>> /\ gitLog = <<>> /\ identity = <<>> /\ allCommits = <<>> /\ fetched = <<>>
    /\ message = <<>> /\ npc = "idle" /\ type = <<>>
    /\ commits = <<>> /\ search = <<>> /\ typeFilter = All /\ sort = "desc"
    /\ since = <<>> /\ daysBack = 1 /\ now = 0 /\ utcOffset = 0
    /\ loading = FALSE /\ collapsedDays = {} /\ viewRepos = <<>> /\ handled = <<>>
    /\ lastEvent = [kind |-> "none"]
    /\ rendered = <<>> /\ memo = <<>> /\ original = <<>>

\* A panel as createWebviewPanel gives it, with the html built from the
\* first fetch: its webview has sent and received nothing.
NewPanel(selection, initialState) ==
    [opened |-> selection,     \* history: selectedRepos when the panel was created
     html |-> initialState,
     loading |-> FALSE,        \* loading.value of its webview
     sent |-> 0,               \* history: the refresh intents its webview has sent
     copies |-> 0,             \* history: the copy intents its webview has sent
     toHost |-> <<>>,          \* the intents posted and not yet handled
     clips |-> <<>>,           \* the copy handlers suspended at the clipboard write
     toView |-> <<>>,          \* the messages posted and not yet handled
     seen |-> 0]               \* history: the commits messages its webview has handled

\* The rest of the command once pickRepositories has returned result to run i
\* of started: the guard, the assignment of selectedRepos, the panel, the
\* first fetch, the html and the registration of the handler. Its two awaits
\* resume in the same turn of the event loop (pickRepositories has returned,
\* fetchCommits has no suspension point), so no other handler runs in between.
Continue(started, i, at, result) ==
    IF Opens(result)
    THEN \E d \in ConfigDaysBack :
           /\ selectedRepos' = result
           /\ queries' = queries + QueriedBy(result)
           /\ panels' = Append(panels, NewPanel(result,
                 [commits |-> FetchedFrom(result, HostLog), repos |-> result, daysBack |-> d]))
           /\ runs' = [started EXCEPT ![i].at = "opened"]
    ELSE /\ runs' = [started EXCEPT ![i].at = at]
         /\ UNCHANGED <<selectedRepos, queries, panels>>

\* The command starts: pickRepositories up to its first await, or to its
\* end when no folder is open.
CommandStart ==
    /\ Len(runs) < MaxCommands
    /\ \E folders \in BOOLEAN :
         LET started == Append(runs, [at |-> "discovery", folders |-> folders, found |-> <<>>])
         IN  IF folders
             THEN /\ runs' = started
                  /\ UNCHANGED <<selectedRepos, workspaceState, errors, panels, queries>>
             ELSE /\ errors' = Append(errors, NoWorkspace)
                  /\ Continue(started, Len(started), "error", Null)
                  /\ UNCHANGED workspaceState

\* findGitRepos resolves for run i: no repository, one, or several.
DiscoveryDone ==
    \E i \in DOMAIN runs, list \in HostRepoLists :
      /\ runs[i].at = "discovery"
      /\ LET started == [runs EXCEPT ![i].found = list]
         IN  IF Len(list) = 0
             THEN /\ errors' = Append(errors, NoRepositories)
                  /\ Continue(started, i, "error", Null)
                  /\ UNCHANGED workspaceState
             ELSE IF Len(list) = 1
             THEN /\ workspaceState' = list
                  /\ Continue(started, i, "error", list)
                  /\ UNCHANGED errors
             ELSE /\ runs' = [started EXCEPT ![i].at = "pick"]
                  /\ UNCHANGED <<selectedRepos, workspaceState, errors, panels, queries>>

\* showQuickPick resolves for run i: dismissed (undefined), or the picked items.
PickDone ==
    \E i \in DOMAIN runs :
      /\ runs[i].at = "pick"
      /\ \E picked \in SUBSET ({AllItem} \cup Range(runs[i].found)) :
           IF picked = {}
           THEN /\ Continue(runs, i, "cancelled", Null)
                /\ UNCHANGED <<workspaceState, errors>>
           ELSE /\ workspaceState' = Selected(runs[i].found, picked)
                /\ Continue(runs, i, "cancelled", Selected(runs[i].found, picked))
                /\ UNCHANGED errors

\* The intents the webviews of all panels have sent so far.
RECURSIVE IntentsSent(_)
IntentsSent(list) ==
    IF list = <<>> THEN 0
    ELSE Head(list).sent + Head(list).copies + IntentsSent(Tail(list))

\* The user presses Refresh in the webview of panel p.
Refresh ==
    \E p \in DOMAIN panels :
      /\ IntentsSent(panels) < MaxIntents
      /\ panels' = [panels EXCEPT ![p].loading = TRUE,
                                  ![p].sent = @ + 1,
                                  ![p].toHost = Append(@, [type |-> "refresh", n |-> panels[p].sent + 1])]
      /\ UNCHANGED <<selectedRepos, workspaceState, errors, runs, queries>>

\* The user copies a line in the webview of panel p.
CopyLine ==
    \E p \in DOMAIN panels :
      /\ IntentsSent(panels) < MaxIntents
      /\ panels' = [panels EXCEPT ![p].copies = @ + 1,
                                  ![p].toHost = Append(@, [type |-> "copy", n |-> 0])]
      /\ UNCHANGED <<selectedRepos, workspaceState, errors, runs, queries>>

\* The handler of panel p takes the next intent. A copy intent suspends it
\* at the clipboard write; a refresh intent is answered in the same turn
\* (fetchCommits has no suspension point: safeExec is execSync), from the
\* closure variable selectedRepos.
HostHandle(p) ==
    /\ p \in DOMAIN panels
    /\ panels[p].toHost # <<>>
    /\ LET msg == Head(panels[p].toHost)
       IN  IF msg.type = "copy"
           THEN /\ panels' = [panels EXCEPT ![p].toHost = Tail(@),
                                            ![p].clips = Append(@, msg)]
                /\ UNCHANGED queries
           ELSE \E d \in ConfigDaysBack :
                  LET reply == [type |-> "commits",
                                commits |-> FetchedFrom(selectedRepos, HostLog),
                                repos |-> selectedRepos,
                                daysBack |-> d,
                                n |-> msg.n]   \* history: the intent answered
                  IN  /\ panels' = [panels EXCEPT ![p].toHost = Tail(@),
                                                  ![p].toView = @ \o RefreshReplies(reply)]
                      /\ queries' = queries + QueriedBy(selectedRepos)
    /\ UNCHANGED <<selectedRepos, workspaceState, errors, runs>>

\* The clipboard write of a copy handler of panel p resolves: copied is posted.
ClipDone(p) ==
    /\ p \in DOMAIN panels
    /\ panels[p].clips # <<>>
    /\ panels' = [panels EXCEPT ![p].clips = Tail(@),
                                ![p].toView = Append(@, [type |-> "copied"])]
    /\ UNCHANGED <<selectedRepos, workspaceState, errors, runs, queries>>

\* The listener of the webview of panel p handles the next message:
\* setCommits for a commits message, nothing for any other.
ViewHandle(p) ==
    /\ p \in DOMAIN panels
    /\ panels[p].toView # <<>>
    /\ LET msg == Head(panels[p].toView)
       IN  panels' = IF msg.type = "commits"
                     THEN [panels EXCEPT ![p].toView = Tail(@),
                                         ![p].loading = FALSE,
                                         ![p].seen = @ + 1]
                     ELSE [panels EXCEPT ![p].toView = Tail(@)]
    /\ UNCHANGED <<selectedRepos, workspaceState, errors, runs, queries>>

\* What no step of the extension host and of the panels changes.
restOfHost == <<walkVars, fetchVars, normVars, viewVars, uiVars, renderVars>>

NextHost ==
    \/ CommandStart /\ UNCHANGED restOfHost
    \/ DiscoveryDone /\ UNCHANGED restOfHost
    \/ PickDone /\ UNCHANGED restOfHost
    \/ Refresh /\ UNCHANGED restOfHost
    \/ CopyLine /\ UNCHANGED restOfHost
    \/ (\E p \in 1..MaxCommands : HostHandle(p)) /\ UNCHANGED restOfHost
    \/ (\E p \in 1..MaxCommands : ClipDone(p)) /\ UNCHANGED restOfHost
    \/ (\E p \in 1..MaxCommands : ViewHandle(p)) /\ UNCHANGED restOfHost

SpecHost == InitHost /\ [][NextHost]_vars

\* The selections a run of the command can end with.
Selections == {<<"r1">>, <<"r2">>, <<"r1", "r2">>}

\* The message loops alone: two runs of the command have each opened a
\* panel, one after the other, and no run is in progress.
InitPanels ==
    \E first \in Selections, second \in Selections :
      /\ selectedRepos = second
      /\ workspaceState = second
      /\ errors = <<>>
      /\ runs = <<[at |-> "opened", folders |-> TRUE, found |-> first],
                  [at |-> "opened", folders |-> TRUE, found |-> second]>>
      /\ panels = <<NewPanel(first, [commits |-> FetchedFrom(first, HostLog), repos |-> first, daysBack |-> 30]),
                    NewPanel(second, [commits |-> FetchedFrom(second, HostLog), repos |-> second, daysBack |-> 30])>>
      /\ queries = QueriedBy(first) + QueriedBy(second)
      /\ roots = <<>> /\ fs = <<>> /\ wpc = "idle" /\ rootIdx = 0
      /\ queue = <<>> /\ repos = <<>> /\ listed = {} /\ visits = <<>> /\ found = <<>>
      /\ repoPaths = <<>> /\ authorSetting = <<>> /\ fpc = "idle" /\ repoIdx = 0
      /\ author = <<>> /\ raw = <<>> /\ gitLog = <<>> /\ identity = <<>> /\ allCommits = <<>> /\ fetched = <<>>
      /\ message = <<>> /\ npc = "idle" /\ type = <<>>
      /\ commits = <<>> /\ search = <<>> /\ typeFilter = All /\ sort = "desc"
      /\ since = <<>> /\ daysBack = 1 /\ now = 0 /\ utcOffset = 0
      /\ loading = FALSE /\ collapsedDays = {} /\ viewRepos = <<>> /\ handled = <<>>
      /\ lastEvent = [kind |-> "none"]
      /\ rendered = <<>> /\ memo = <<>> /\ original = <<>>

NextPanels ==
    \/ Refresh /\ UNCHANGED restOfHost
    \/ CopyLine /\ UNCHANGED restOfHost
    \/ (\E p \in DOMAIN panels : HostHandle(p)) /\ UNCHANGED restOfHost
    \/ (\E p \in DOMAIN panels : ClipDone(p)) /\ UNCHANGED restOfHost
    \/ (\E p \in DOMAIN panels : ViewHandle(p)) /\ UNCHANGED restOfHost

\* Every runnable task of the event loops is run: the handler of each panel
\* is called for a posted intent, a clipboard write resolves, and the
\* listener of each webview is called for a posted message.
SpecPanelsFair ==
    /\ InitPanels /\ [][NextPanels]_vars
    /\ \A p \in 1..MaxCommands :
         /\ WF_vars(HostHandle(p) /\ UNCHANGED restOfHost)
         /\ WF_vars(ClipDone(p) /\ UNCHANGED restOfHost)
         /\ WF_vars(ViewHandle(p) /\ UNCHANGED restOfHost)

\* Step of a run of the command that ends it where pickRepositories shows
\* an error: no folder open, or no repository found.
FailedOpenStep ==
    \E i \in DOMAIN runs' :
      /\ runs'[i].at # "discovery" /\ runs'[i].at # "pick"
      /\ i \in DOMAIN runs => runs[i].at = "discovery"
      /\ ~runs'[i].folders \/ runs'[i].found = <<>>

\* C24: a step that ends a run of the open command with no workspace folder
\* open, or with no repository found, shows one error message (the one of
\* its case) and creates no panel, changes neither selectedRepos nor the
\* stored selection and runs no log query; fetchCommits of an empty list is
\* the empty list, with no command run, whatever the repositories would give.
C24_FailedOpen ==
    [][ /\ FailedOpenStep =>
             /\ \E i \in DOMAIN runs' :
                  errors' = Append(errors, IF runs'[i].folders THEN NoRepositories ELSE NoWorkspace)
             /\ UNCHANGED <<panels, selectedRepos, workspaceState, queries>>
        /\ FetchedFrom(<<>>, HostLog) = <<>> /\ QueriedBy(<<>>) = 0
      ]_vars

\* C24 witness: with a panel open on a selection of two repositories, a
\* later run of the command found no repository and ended with the error.
C24_Witness ==
    /\ Len(panels) = 1
    /\ selectedRepos = <<"r1", "r2">>
    /\ workspaceState = selectedRepos
    /\ Len(runs) = 2
    /\ runs[1].at = "opened"
    /\ runs[2].at = "error" /\ runs[2].folders
    /\ errors = <<NoRepositories>>

\* The commits messages posted to panel p answer its refresh intents one for
\* one and in the order received, each with the three fields: the messages
\* not yet handled answer the intents after the ones whose answer was
\* handled, up to the last intent the handler took. loading is true only
\* while an intent of the panel has no handled answer.
AnsweredInOrder(p) ==
    LET panel == panels[p]
        waiting == Len(SelectSeq(panel.toHost, LAMBDA msg : msg.type = "refresh"))
        answers == SelectSeq(panel.toView, LAMBDA msg : msg.type = "commits")
    IN  /\ panel.seen + Len(answers) = panel.sent - waiting
        /\ \A j \in 1..Len(answers) :
              /\ answers[j].n = panel.seen + j
              /\ {"commits", "repos", "daysBack"} \subseteq DOMAIN answers[j]
        /\ panel.loading => panel.seen < panel.sent

\* The refresh intents sent and the commits messages handled by the webview
\* of the p-th panel, and its loading flag; nothing before the panel exists.
SentBy(p) == IF p \in DOMAIN panels THEN panels[p].sent ELSE 0

SeenBy(p) == IF p \in DOMAIN panels THEN panels[p].seen ELSE 0

LoadingOf(p) == IF p \in DOMAIN panels THEN panels[p].loading ELSE FALSE

\* C26: every refresh intent of a panel is eventually answered by a commits
\* message that its webview handles (the k-th intent by the k-th message, one
\* message per intent, with commits, repos and daysBack, also when every log
\* query fails), and once every answer is handled loading is false.
C26_RefreshAnswered ==
    /\ [](\A p \in DOMAIN panels : AnsweredInOrder(p))
    /\ \A p \in 1..MaxCommands, k \in 1..MaxIntents :
         (SentBy(p) >= k) ~> (SeenBy(p) >= k /\ (SeenBy(p) = SentBy(p) => ~LoadingOf(p)))

\* C26 witness: with the repository whose log query fails as the selection,
\* the first panel has sent two refresh intents; the answer to the first was handled, and the answer to
\* the second, without commits, is posted.
C26_Witness ==
    /\ selectedRepos = <<"r2">>
    /\ panels[1].sent = 2
    /\ panels[1].seen = 1
    /\ ~panels[1].loading
    /\ Len(panels[1].toView) = 1
    /\ panels[1].toView[1].n = 2
    /\ panels[1].toView[1].commits = <<>>

\* The selection in use is the one of the panel opened last: no run of the
\* command that was cancelled or failed has changed it.
SelectionOfLastPanel == panels # <<>> => selectedRepos = panels[Len(panels)].opened

\* C28: every commits message posted to a panel carries the selection made
\* when that panel was opened and the commits extracted from it, whatever
\* was selected for the panels opened later; and a cancelled or failed run of
\* the command leaves the selection in use as the last opened panel set it.
C28_OwnSelection ==
    /\ \A p \in DOMAIN panels :
         \A j \in DOMAIN panels[p].toView :
            LET msg == panels[p].toView[j]
            IN  msg.type = "commits" =>
                  /\ msg.repos = panels[p].opened
                  /\ msg.commits = FetchedFrom(panels[p].opened, HostLog)
    /\ SelectionOfLastPanel

(***************************************************************************)
(* The webview: the message listener                                       *)
(***************************************************************************)

\* Bound of the messages the listener handles.
MaxMessages == 2

\* The raw commits a message carries.
PayloadPool ==
    {[hash |-> h, message |-> <<"f", "i", "x", ":", " ", "U", "I">>, date |-> [clock |-> 2, offset |-> 0]] :
        h \in FilterHashes}

\* The commits field: missing, or an array of one commit or of twice a commit.
NoCommits == [present |-> FALSE, list |-> <<>>]

Payloads ==
    {NoCommits} \cup {[present |-> TRUE, list |-> <<c>>] : c \in PayloadPool}
                \cup {[present |-> TRUE, list |-> <<c, c>>] : c \in PayloadPool}

\* next || []
OrEmpty(next) == IF next.present THEN next.list ELSE <<>>

\* The daysBack field: a finite number or anything else.
NotFinite == [finite |-> FALSE, value |-> 0]

DaysBackFields == {NotFinite, [finite |-> TRUE, value |-> 2]}

\* The messages the window can deliver.
MessagesIn ==
    [type : {"commits", "copied"}, commits : Payloads,
     repos : {Undefined, <<"r1">>}, daysBack : DaysBackFields]

\* The day keys of the groups shown.
DayKeys == {IsoDate(1)}

\* Array.isArray, Number.isFinite
IsArray(v) == v # Undefined

IsFinite(v) == v.finite

\* setCommits(next || []): commits.value after it.
CommitsMerged(prev, next) == prev \o NormalizeAll(OrEmpty(next))

CommitsAfter(prev, next) == NormalizeAll(OrEmpty(next))

\* The refs of the component, as a record.
Refs ==
    [commits |-> commits, repos |-> viewRepos, daysBack |-> daysBack, loading |-> loading,
     search |-> search, typeFilter |-> typeFilter, sort |-> sort, since |-> since,
     collapsedDays |-> collapsedDays]

\* The search, the type and the sort as the component sets them up, and as
\* the user may have set them.
ControlSettings ==
    {[search |-> <<>>, typeFilter |-> All, sort |-> "desc"],
     [search |-> <<"a", "1">>, typeFilter |-> <<"f", "i", "x">>, sort |-> "asc"]}

\* The component is mounted on one commit, and the user has or has not set
\* the search, the type and the sort.
InitMessages ==
    /\ commits = NormalizeAll(<<CHOOSE c \in PayloadPool : c.hash = <<"a", "1">> >>)
    /\ \E set \in ControlSettings :
         search = set.search /\ typeFilter = set.typeFilter /\ sort = set.sort
    /\ daysBack = 1
    /\ now = 5
    /\ utcOffset = 0
    /\ since = SinceOfLookback(now, daysBack)
    /\ loading = FALSE
    /\ collapsedDays = {}
    /\ viewRepos = <<"r1", "r2">>
    /\ handled = [count |-> 0, answers |-> 0, last |-> NoCommits]
    /\ lastEvent = [kind |-> "none"]
    \* the extension host is not running
    /\ roots = <<>> /\ fs = <<>> /\ wpc = "idle" /\ rootIdx = 0
    /\ queue = <<>> /\ repos = <<>> /\ listed = {} /\ visits = <<>> /\ found = <<>>
    /\ repoPaths = <<>> /\ authorSetting = <<>> /\ fpc = "idle" /\ repoIdx = 0
    /\ author = <<>> /\ raw = <<>> /\ gitLog = <<>> /\ identity = <<>> /\ allCommits = <<>> /\ fetched = <<>>
    /\ message = <<>> /\ npc = "idle" /\ type = <<>>
    /\ rendered = <<>> /\ memo = <<>> /\ original = <<>>
    /\ selectedRepos = <<>> /\ workspaceState = <<>> /\ errors = <<>> /\ runs = <<>>
    /\ panels = <<>> /\ queries = 0

\* The listener handles a message.
Receive ==
    /\ handled.count < MaxMessages
    /\ \E msg \in MessagesIn :
         /\ lastEvent' = [kind |-> "message", type |-> msg.type, before |-> Refs]
         /\ IF msg.type = "commits"
            THEN /\ viewRepos' = IF IsArray(msg.repos) THEN msg.repos ELSE viewRepos
                 /\ IF IsFinite(msg.daysBack)
                    THEN /\ daysBack' = msg.daysBack.value
                         /\ since' = SinceOfLookback(now, msg.daysBack.value)
                    ELSE UNCHANGED <<daysBack, since>>
                 /\ commits' = CommitsAfter(commits, msg.commits)
                 /\ loading' = FALSE
                 /\ handled' = [count |-> handled.count + 1, answers |-> handled.answers + 1,
                                last |-> msg.commits]
            ELSE /\ handled' = [handled EXCEPT !.count = @ + 1]
                 /\ UNCHANGED <<viewRepos, daysBack, since, commits, loading>>
    /\ UNCHANGED <<search, typeFilter, sort, now, utcOffset, collapsedDays>>

\* The user presses Refresh.
PressRefresh ==
    /\ ~loading
    /\ loading' = TRUE
    /\ lastEvent' = [kind |-> "user"]
    /\ UNCHANGED <<viewVars, collapsedDays, viewRepos, handled>>

\* The user collapses or expands a day.
toggleDay ==
    /\ \E key \in DayKeys :
         collapsedDays' = IF key \in collapsedDays THEN collapsedDays \ {key}
                          ELSE collapsedDays \cup {key}
    /\ lastEvent' = [kind |-> "user"]
    /\ UNCHANGED <<viewVars, loading, viewRepos, handled>>

\* The user sets the date input.
ChooseSince ==
    /\ PickSince \/ ClearSince
    /\ lastEvent' = [kind |-> "user"]
    /\ UNCHANGED <<loading, collapsedDays, viewRepos, handled>>

NextMessages ==
    \/ Receive /\ UNCHANGED <<walkVars, fetchVars, normVars, renderVars, hostVars>>
    \/ PressRefresh /\ UNCHANGED <<walkVars, fetchVars, normVars, renderVars, hostVars>>
    \/ toggleDay /\ UNCHANGED <<walkVars, fetchVars, normVars, renderVars, hostVars>>
    \/ ChooseSince /\ UNCHANGED <<walkVars, fetchVars, normVars, renderVars, hostVars>>

SpecMessages == InitMessages /\ [][NextMessages]_vars

\* C25: once a commits message has been handled, the commit list is the
\* normalized payload of the last commits message handled, element for
\* element (nothing of an earlier list, no element dropped as a duplicate),
\* whatever was handled before and whatever the user did since.
C25_LastPayloadOnly ==
    handled.answers > 0 =>
        LET payload == IF handled.last.present THEN handled.last.list ELSE <<>>
        IN  /\ Len(commits) = Len(payload)
            /\ \A i \in 1..Len(payload) : commits[i] = NormalizeCommit(payload[i])

\* C25 witness: a second commits message was just handled; the list was one
\* commit, the payload was another commit twice, and the list is that
\* commit twice.
C25_Witness ==
    /\ handled.answers = 2
    /\ lastEvent.kind = "message" /\ lastEvent.type = "commits"
    /\ Len(lastEvent.before.commits) = 1
    /\ lastEvent.before.commits[1].hash = <<"a", "1">>
    /\ Len(commits) = 2
    /\ commits[1].hash = <<"b", "2">> /\ commits[2].hash = <<"b", "2">>

\* The since date of refs is not the one derived from its lookback: the
\* user has picked it or cleared it.
UserChosen(refs) == refs.since # SinceOfLookback(now, refs.daysBack)

\* C29: the listener, on a commits message, leaves search, typeFilter, sort
\* and collapsedDays as they were, and since as the user chose it; on any
\* other message it leaves every ref as it was.
C29_ControlsKept ==
    lastEvent.kind = "message" =>
        IF lastEvent.type = "commits"
        THEN /\ search = lastEvent.before.search
             /\ typeFilter = lastEvent.before.typeFilter
             /\ sort = lastEvent.before.sort
             /\ collapsedDays = lastEvent.before.collapsedDays
             /\ UserChosen(lastEvent.before) => since = lastEvent.before.since
        ELSE Refs = lastEvent.before

(***************************************************************************)
(* Repository discovery: termination                                       *)
(***************************************************************************)
\* The root lists of the runs followed to their end: one root, and an empty
\* string before the root.
TerminationRoots == {<<WorkspaceRoot>>, <<<<>>, WorkspaceRoot>>}

InitWalkFair == InitWalk /\ roots \in TerminationRoots

\* The continuation of every readdir runs once the promise settles, and the
\* loops of findGitRepos and walkForRepos go on until they end.
SpecWalkFair == InitWalkFair /\ [][NextWalk]_vars /\ WF_vars(NextWalk)

\* No directory is given to readdir twice by the current walkForRepos: the
\* paths listed are different directories, links resolved.
ListedOnce ==
    \A i, j \in 1..Len(visits) : RealPath(visits[i]) = RealPath(visits[j]) => i = j

\* C27: on every tree, with symbolic links and cycles through them,
\* findGitRepos returns (every walkForRepos empties its work-list), and
\* within the walk of one root no directory is listed twice.
C27_WalkTerminates ==
    /\ [](ListedOnce /\ (wpc = "done" => queue = <<>>))
    /\ <>(wpc = "done")

\* C27 witness: findGitRepos has returned on a tree where the last root
\* listed holds a symbolic link to the workspace root, a cycle, and a
\* directory that was listed after it.
C27_Witness ==
    /\ wpc = "done"
    /\ queue = <<>>
    /\ Len(visits) >= 2
    /\ visits[1] = WorkspaceRoot
    /\ Dirent(LinkName, "link") \in fs[WorkspaceRoot].entries

(***************************************************************************)
(* The webview: the scope clause of the search                             *)
(***************************************************************************)
\* Bound of the messages searched: the length of a message.
MaxScopeLen == 3

\* Messages of parentheses and letters of both cases, and the texts typed in
\* the search box.
ScopeChars == {"(", ")", "x", "Y"}

ScopeMessages == UNION {[1..n -> ScopeChars] : n \in 0..MaxScopeLen}

ScopeTerms == UNION {[1..n -> {"x", "Y", ")"}] : n \in 0..2}

\* The component is mounted on one commit.
InitScope ==
    /\ commits \in {NormalizeAll(<<[hash |-> <<"a", "1">>, message |-> msg,
                                  date |-> [clock |-> 4, offset |-> 0]]>>) : msg \in ScopeMessages}
    /\ search = <<>>
    /\ typeFilter = All
    /\ sort = "desc"
    /\ daysBack = 1
    /\ now = 5
    /\ utcOffset = 0
    /\ since = SinceOfLookback(now, daysBack)
    \* the extension host is not running
    /\ roots = <<>> /\ fs = <<>> /\ wpc = "idle" /\ rootIdx = 0
    /\ queue = <<>> /\ repos = <<>> /\ listed = {} /\ visits = <<>> /\ found = <<>>
    /\ repoPaths = <<>> /\ authorSetting = <<>> /\ fpc = "idle" /\ repoIdx = 0
    /\ author = <<>> /\ raw = <<>> /\ gitLog = <<>> /\ identity = <<>> /\ allCommits = <<>> /\ fetched = <<>>
    /\ message = <<>> /\ npc = "idle" /\ type = <<>>
    \* no message, no rendering, no command
    /\ loading = FALSE /\ collapsedDays = {} /\ viewRepos = <<>> /\ handled = <<>>
    /\ lastEvent = [kind |-> "none"]
    /\ rendered = <<>> /\ memo = <<>> /\ original = <<>>
    /\ selectedRepos = <<>> /\ workspaceState = <<>> /\ errors = <<>> /\ runs = <<>>
    /\ panels = <<>> /\ queries = 0

\* Typing in the search box.
TypeSearch ==
    /\ \E text \in ScopeTerms : text # search /\ search' = text
    /\ UNCHANGED <<commits, typeFilter, sort, since, daysBack, now, utcOffset>>

NextScope ==
    \/ TypeSearch /\ UNCHANGED <<walkVars, fetchVars, normVars, extraVars>>
    \/ SortAsc /\ UNCHANGED <<walkVars, fetchVars, normVars, extraVars>>
    \/ SortDesc /\ UNCHANGED <<walkVars, fetchVars, normVars, extraVars>>

SpecScope == InitScope /\ [][NextScope]_vars

\* The commits that pass the since and type tests and whose lower-cased
\* message or hash holds the term, in the order of the sort.
VisibleByMessageAndHash ==
    LET term == toLowerCase(trim(search))
    IN  SortByDate(
            SelectSeq(commits,
                LAMBDA c : /\ PassesSince(c, since, utcOffset)
                           /\ PassesType(c, typeFilter)
                           /\ \/ term = <<>>
                              \/ includes(toLowerCase(c.message), term)
                              \/ includes(toLowerCase(c.hash), term)),
            sort)

\* C30: a term found in the lower-cased scope of a message is found in the
\* lower-cased message, and the visible commits are the ones obtained by
\* matching the term against message and hash only.
C30_ScopeRedundant ==
    /\ \A i \in 1..Len(commits) :
          LET term == toLowerCase(trim(search))
          IN  includes(toLowerCase(ScopeOf(commits[i].message)), term)
                => includes(toLowerCase(commits[i].message), term)
    /\ filtered = VisibleByMessageAndHash

\* C30 witness: the term y is in the scope of the message (Y), not in the
\* hash, and the commit is visible.
C30_Witness ==
    /\ search = <<"Y">>
    /\ commits[1].message = <<"(", "Y", ")">>
    /\ ScopeOf(commits[1].message) = <<"Y">>
    /\ ~includes(toLowerCase(commits[1].hash), <<"y">>)
    /\ filtered = commits

====
